---- MODULE Spec2Model ----
(***************************************************************************)
(* Enoki mental-health chatbot: the risk classification and reply pipeline *)
(* of core/gemini_client.py and the consent-gated session store of         *)
(* core/views.py.                                                          *)
(*                                                                         *)
(* Texts matched by substring (user messages, emotion labels, the model's  *)
(* classification answer) are sequences of one-character strings.  Texts   *)
(* re-wrapped by add_breaks (replies) are sequences of tokens: a token is  *)
(* a maximal run of non-whitespace characters or one whitespace character. *)
(* Characters outside ASCII are written <U+XXXX>.  Emotion scores are in   *)
(* hundredths (0.7 is 70).                                                 *)
(***************************************************************************)
EXTENDS Integers, Sequences, FiniteSets, TLC

VARIABLES
    g_pc,        \* position of generate_reply: idle, classify_wait, classified, reply_wait, done
    g_text,      \* user_text of the running generate_reply
    g_emotions,  \* emotions of the running generate_reply
    g_type,      \* response_type, NoText until assess_response_type has returned
    g_assess,    \* what the classification call returned, NoAnswer when not (yet) returned
    g_gen,       \* what the reply-generation call returned, NoAnswer when not (yet) returned
    g_calls,     \* the pipeline's events in the order the code performs them
    g_reply      \* the value generate_reply returns, NoText before

gvars == <<g_pc, g_text, g_emotions, g_type, g_assess, g_gen, g_calls, g_reply>>

VARIABLES
    rate,        \* per requester: the age in seconds of its rate-limit cache entry, if any
    prefs_db,    \* per identity: the UserPreference row, if any
    prefs_cache, \* per identity: the cached copy of the preferences object, if any
    buffer,      \* per browser session: temp_chat_history (<<>> when the key is absent)
    current,     \* per browser session: current_chat_session_id, if any
    sessions,    \* the ChatSession rows by id, each with its messages, summary and memory
    next_sid,    \* the id the next ChatSession row gets
    sent,        \* per browser: how many of its messages were stored
    list_cache,  \* per identity: the cached answer of api_chat_sessions, if any
    resp,        \* the answer to the last request
    client       \* the browser whose requests the run follows

svars == <<rate, prefs_db, prefs_cache, buffer, current, sessions, next_sid, sent,
           list_cache, resp, client>>

VARIABLES
    a_env,       \* the environment the sarcasm service was started with
    a_req,       \* the last request to /predict_all with what the models returned for it
    a_resp       \* the response to it

avars == <<a_env, a_req, a_resp>>

VARIABLES
    m_memory,    \* the structured memory of the conversation update_memory is followed on
    m_summary,   \* its summary
    m_history,   \* its turns, oldest first
    m_extract,   \* what the generation capability extracts from the latest exchange when asked
    m_result     \* what the generation call of the latest summary update did

mvars == <<m_memory, m_summary, m_history, m_extract, m_result>>

VARIABLES
    e_env,       \* ENCRYPTION_KEY and whether the cryptography package is installed
    e_text,      \* the text of the turn that is written
    e_field,     \* Message.text of the object in memory
    e_row,       \* Message.text of the stored row, if the object was saved
    e_read,      \* what Message.plaintext returned, if it was read
    e_saves,     \* how many times the object was saved
    e_pc         \* the object: new (constructed), set (set_plaintext called), saved

evars == <<e_env, e_text, e_field, e_row, e_read, e_saves, e_pc>>

VARIABLES
    c_req,       \* per request slot: the api_chat request in flight there, if any
    c_msgs,      \* how many messages were submitted to the slots
    c_done       \* the messages answered from the browser session alone (no consent)

cvars == <<c_req, c_msgs, c_done>>

VARIABLES
    o_deleted    \* the sessions deleted from another browser session of the identity

ovars == <<o_deleted>>

VARIABLES
    t_session,   \* the session of a conversation that is followed message by message
    t_calls,     \* the external calls api_chat issued for its latest message, in order
    t_consent    \* whether that message was handled on the consent branch

tvars == <<t_session, t_calls, t_consent>>

xvars == <<mvars, evars, cvars, ovars, tvars>>

vars == <<gvars, svars, avars, xvars>>

\* no value yet: a text or category not set, a call not returned
NoText == <<>>

NoAnswer == [kind |-> "none", text |-> <<>>]

\* ------------------------------------------------------------ bounds

MaxEmotions == 2

\* ------------------------------------------------------------ strings

ToLower ==
    ("A" :> "a") @@ ("B" :> "b") @@ ("C" :> "c") @@ ("D" :> "d") @@ ("E" :> "e") @@
    ("F" :> "f") @@ ("G" :> "g") @@ ("H" :> "h") @@ ("I" :> "i") @@ ("J" :> "j") @@
    ("K" :> "k") @@ ("L" :> "l") @@ ("M" :> "m") @@ ("N" :> "n") @@ ("O" :> "o") @@
    ("P" :> "p") @@ ("Q" :> "q") @@ ("R" :> "r") @@ ("S" :> "s") @@ ("T" :> "t") @@
    ("U" :> "u") @@ ("V" :> "v") @@ ("W" :> "w") @@ ("X" :> "x") @@ ("Y" :> "y") @@
    ("Z" :> "z")

\* str.lower(), str.upper() and str.strip() on a sequence of characters
str_lower(s) ==
    [i \in 1..Len(s) |-> IF s[i] \in DOMAIN ToLower THEN ToLower[s[i]] ELSE s[i]]

str_upper(s) ==
    [i \in 1..Len(s) |->
        IF \E u \in DOMAIN ToLower : ToLower[u] = s[i]
        THEN CHOOSE u \in DOMAIN ToLower : ToLower[u] = s[i]
        ELSE s[i]]

IsSpace(c) == c \in {" ", "\n", "\t"}

RECURSIVE str_strip(_)
str_strip(s) ==
    IF Len(s) = 0 THEN s
    ELSE IF IsSpace(s[1]) THEN str_strip(Tail(s))
    ELSE IF IsSpace(s[Len(s)]) THEN str_strip(SubSeq(s, 1, Len(s) - 1))
    ELSE s

\* Python's `needle in hay`
Contains(hay, needle) ==
    \/ Len(needle) = 0
    \/ \E i \in 0..(Len(hay) - Len(needle)) :
        /\ hay[i + 1] = needle[1]
        /\ SubSeq(hay, i + 1, i + Len(needle)) = needle

\* dict.get(key, default)
Get(d, key, default) == IF key \in DOMAIN d THEN d[key] ELSE default

\* ------------------------------------------------------------ assess_response_type

SituationCategory ==
    [ immediate_danger |-> <<"i","m","m","e","d","i","a","t","e","_","d","a","n","g","e","r">>,
      grief            |-> <<"g","r","i","e","f">>,
      panic            |-> <<"p","a","n","i","c">>,
      high_distress    |-> <<"h","i","g","h","_","d","i","s","t","r","e","s","s">>,
      normal           |-> <<"n","o","r","m","a","l">> ]

\* the marker lists of the four categories, in the order the loop visits them
explicit_crisis_markers ==
    << <<"k","i","l","l"," ","m","y","s","e","l","f">>,
       <<"k","i","l","l"," ","m","y","s","e","l","f">>,
       <<"k","i","l","l","i","n","g"," ","m","y","s","e","l","f">>,
       <<"w","a","n","t"," ","t","o"," ","d","i","e">>,
       <<"s","h","o","u","l","d"," ","d","i","e">>,
       <<"e","n","d"," ","m","y"," ","l","i","f","e">>,
       <<"e","n","d"," ","i","t"," ","a","l","l">>,
       <<"e","n","d"," ","i","t">>,
       <<"t","a","k","e"," ","m","y"," ","l","i","f","e">>,
       <<"s","u","i","c","i","d","e">>,
       <<"s","u","i","c","i","d","a","l">>,
       <<"c","o","m","m","i","t"," ","s","u","i","c","i","d","e">>,
       <<"c","u","t"," ","m","y","s","e","l","f">>,
       <<"c","u","t","t","i","n","g"," ","m","y","s","e","l","f">>,
       <<"c","u","t","t","i","n","g">>,
       <<"s","e","l","f","-","h","a","r","m">>,
       <<"s","e","l","f"," ","h","a","r","m">>,
       <<"h","u","r","t"," ","m","y","s","e","l","f">>,
       <<"h","u","r","t","i","n","g"," ","m","y","s","e","l","f">>,
       <<"h","a","r","m"," ","m","y","s","e","l","f">>,
       <<"o","v","e","r","d","o","s","e">>,
       <<"r","o","p","e">>,
       <<"p","i","l","l","s">>,
       <<"j","u","m","p">>,
       <<"h","a","n","g","i","n","g">>,
       <<"w","r","i","s","t">>,
       <<"n","o"," ","p","o","i","n","t"," ","i","n"," ","l","i","v","i","n","g">>,
       <<"b","e","t","t","e","r"," ","o","f","f"," ","d","e","a","d">>,
       <<"e","v","e","r","y","o","n","e"," ","w","o","u","l","d"," ","b","e"," ","b","e","t","t","e","r"," ","o","f","f"," ","i","f"," ","i">>,
       <<"s","h","o","u","l","d","n","'","t"," ","b","e"," ","a","l","i","v","e">>,
       <<"d","o","n","'","t"," ","d","e","s","e","r","v","e"," ","t","o"," ","l","i","v","e">> >>


\* lines 11-13: the module's keyword and label sets (no function reads them)
GRIEF_KEYWORDS ==
    { <<"d","i","e","d">>, <<"p","a","s","s","e","d">>, <<"f","u","n","e","r","a","l">>,
      <<"m","i","s","s">>, <<"p","e","t">>, <<"d","o","g">>, <<"c","a","t">>,
      <<"t","i","g","e","r">>, <<"r","a","i","n","b","o","w"," ","b","r","i","d","g","e">> }

HIGH_DISTRESS ==
    { <<"s","a","d","n","e","s","s">>, <<"g","r","i","e","f">>, <<"d","e","s","p","a","i","r">>,
      <<"a","n","x","i","e","t","y">>, <<"f","e","a","r">> }

\* line 110
grief_keywords ==
    << <<"d","i","e","d">>,
       <<"p","a","s","s","e","d">>,
       <<"f","u","n","e","r","a","l">>,
       <<"d","e","a","t","h">>,
       <<"l","o","s","t">>,
       <<"l","o","s","t"," ","m","y">>,
       <<"m","i","s","s">> >>


\* line 192
valid_types ==
    << <<"P","A","N","I","C">>,
       <<"G","R","I","E","F">>,
       <<"H","I","G","H","_","D","I","S","T","R","E","S","S">>,
       <<"N","O","R","M","A","L">> >>


\* mutant: the message is matched as typed
user_lower_as_typed(user_text) == user_text

\* line 74
user_lower(user_text) == str_lower(user_text)

\* lines 96-101: some explicit marker occurs in the lower-cased message
explicit_marker_hit(user_text) ==
    \E k \in 1..Len(explicit_crisis_markers) :
        Contains(user_lower(user_text), explicit_crisis_markers[k])

\* emotions[0].get('label', '').lower() and emotions[0].get('score', 0)
top_emotion(emotions) == str_lower(Get(emotions[1], "label", <<>>))

top_score(emotions) == Get(emotions[1], "score", 0)

\* mutant: the label is compared as the scorer spelled it
grief_shortcut_label_as_given(user_text, emotions) ==
    /\ Len(emotions) > 0
    /\ Get(emotions[1], "label", <<>>) = <<"s","a","d","n","e","s","s">>
    /\ top_score(emotions) > 70
    /\ \E k \in 1..Len(grief_keywords) : Contains(user_lower(user_text), grief_keywords[k])

\* lines 105-113: sadness above 0.7 together with a loss keyword
grief_shortcut(user_text, emotions) ==
    /\ Len(emotions) > 0
    /\ top_emotion(emotions) = <<"s","a","d","n","e","s","s">>
    /\ top_score(emotions) > 70
    /\ \E k \in 1..Len(grief_keywords) : Contains(user_lower(user_text), grief_keywords[k])

\* mutant: the matched token is returned as it stands in valid_types
parse_assessment_upper(assessment) ==
    LET hits == {k \in 1..Len(valid_types) : Contains(assessment, valid_types[k])}
    IN  IF hits = {} THEN NoText
        ELSE valid_types[CHOOSE k \in hits : \A j \in hits : k <= j]

\* lines 192-195: the first entry of valid_types that occurs in the answer, lower-cased
parse_assessment(assessment) ==
    LET hits == {k \in 1..Len(valid_types) : Contains(assessment, valid_types[k])}
    IN  IF hits = {} THEN NoText
        ELSE str_lower(valid_types[CHOOSE k \in hits : \A j \in hits : k <= j])

\* lines 198-209 (threshold 70, sadness) and lines 214-224 (threshold 60, sadness or anger)
emotion_fallback(emotions, threshold, distress) ==
    IF Len(emotions) > 0 /\ top_score(emotions) > threshold
    THEN IF top_emotion(emotions) = <<"f","e","a","r">> THEN SituationCategory.panic
         ELSE IF top_emotion(emotions) \in distress THEN SituationCategory.high_distress
         ELSE SituationCategory.normal
    ELSE SituationCategory.normal

\* lines 177-224: the category once the classification call has returned `answer`:
\* [kind |-> "text", text |-> ...] is response.text; "blocked" is a response whose
\* .text raises; "error" and "timeout" are generate_content raising
assess_after_call(emotions, answer) ==
    IF answer.kind = "text"
    THEN LET parsed == parse_assessment(str_upper(str_strip(answer.text)))
         IN  IF parsed # NoText THEN parsed
             ELSE emotion_fallback(emotions, 70, {<<"s","a","d","n","e","s","s">>})
    ELSE emotion_fallback(emotions, 60,
                          {<<"s","a","d","n","e","s","s">>, <<"a","n","g","e","r">>})

\* mutant: a marker hit is logged but does not return
assess_before_call_no_return(user_text, emotions) ==
    IF grief_shortcut(user_text, emotions)
    THEN [calls |-> <<"marker_check", "emotion_check">>, type |-> SituationCategory.grief]
    ELSE [calls |-> <<"marker_check", "emotion_check", "classify_call">>, type |-> NoText]

\* lines 62-185: assess_response_type up to its first return or its model call:
\* the events in code order, and the category when it returns without the call
assess_before_call(user_text, emotions) ==
    IF explicit_marker_hit(user_text)
    THEN [calls |-> <<"marker_check">>, type |-> SituationCategory.immediate_danger]
    ELSE IF grief_shortcut(user_text, emotions)
    THEN [calls |-> <<"marker_check", "emotion_check">>, type |-> SituationCategory.grief]
    ELSE [calls |-> <<"marker_check", "emotion_check", "classify_call">>, type |-> NoText]

\* ------------------------------------------------------------ PHILIPPINE_CRISIS_RESOURCES and fixed replies

national_hotlines ==
    << << "**National", " ", "Center", " ", "for", " ", "Mental", " ", "Health", " ", "Crisis",
      " ", "Hotline**:", " ", "1553", " ", "(landline", " ", "nationwide,", " ", "toll-free)",
      " ", "or", " ", "0917-899-8727" >>,

       << "**HOPELINE", " ", "Philippines**:", " ", "2919", " ", "(Globe/TM", " ",
      "toll-free)", " ", "or", " ", "(02)", " ", "8804-4673" >>,

       << "**In", " ", "Touch", " ", "Community", " ", "Services**:", " ", "(02)", " ",
      "8893-7603", " ", "or", " ", "0917-800-1123", " ", "(24/7", " ", "free", " ", "crisis",
      " ", "line)" >> >>

regional_hotlines ==
    << << "**Tawag", " ", "Paglaum", " ", "-", " ", "Centro", " ", "Bisaya**", " ", "(Cebu):",
      " ", "0939-937-5433", " ", "or", " ", "0927-654-1629" >>,

       << "**Quezon", " ", "City", " ", "Helpline**:", " ", "122", " ", "(for", " ", "QC", " ",
      "residents)" >> >>

emergency ==
    << "**Emergency", " ", "Services**:", " ", "911" >>

crisis_header ==
    << "**<U+1F198>", " ", "IMMEDIATE", " ", "HELP", " ", "-", " ", "PHILIPPINES", " ",
      "CRISIS", " ", "HOTLINES:**", "\n", "\n" >>

regional_header ==
    << "**Regional", " ", "Support:**", "\n" >>

crisis_footer ==
    << "\n", "**These", " ", "are", " ", "all", " ", "FREE,", " ", "confidential,", " ", "and",
      " ", "available", " ", "24/7.**" >>

fallback_crisis_head ==
    << "I'm", " ", "really", " ", "concerned", " ", "about", " ", "you", " ", "right", " ",
      "now.", " ", "Your", " ", "life", " ", "has", " ", "value,", " ", "and", " ", "there",
      " ", "are", " ", "people", " ", "who", " ", "want", " ", "to", " ", "help", " ", "you",
      " ", "through", " ", "this.", "\n", "\n" >>

fallback_crisis_tail ==
    << "\n", "\n", "Please", " ", "reach", " ", "out", " ", "to", " ", "one", " ", "of", " ",
      "these", " ", "resources", " ", "right", " ", "now.", " ", "You", " ", "don't", " ",
      "have", " ", "to", " ", "face", " ", "this", " ", "alone." >>

fallback_grief ==
    << "I'm", " ", "so", " ", "sorry", " ", "for", " ", "your", " ", "loss.", " ", "The", " ",
      "love", " ", "you", " ", "had", " ", "is", " ", "real", " ", "and", " ", "precious,",
      " ", "and", " ", "grief", " ", "is", " ", "the", " ", "price", " ", "we", " ", "pay",
      " ", "for", " ", "that", " ", "love.", " ", "I'm", " ", "here", " ", "with", " ", "you",
      " ", "through", " ", "this." >>

fallback_panic ==
    << "You're", " ", "not", " ", "alone.", " ", "I'm", " ", "here", " ", "with", " ", "you.",
      " ", "Breathe", " ", "in", " ", "slowly<U+2014>1,", " ", "2,", " ", "3,", " ", "4.", " ",
      "Hold<U+2014>1,", " ", "2,", " ", "3,", " ", "4.", " ", "Out<U+2014>1,", " ", "2,", " ",
      "3,", " ", "4.", "\n", "\n", "You're", " ", "safe.", " ", "This", " ", "will", " ",
      "pass." >>

fallback_distress ==
    << "I", " ", "hear", " ", "you,", " ", "and", " ", "I'm", " ", "here", " ", "for", " ",
      "you.", " ", "What", " ", "you're", " ", "feeling", " ", "is", " ", "real", " ", "and",
      " ", "valid.", " ", "I'm", " ", "listening." >>

fallback_normal_1 ==
    << "Hey,", " ", "sorry", " ", "if", " ", "my", " ", "reply's", " ", "a", " ", "bit", " ",
      "off<U+2014>my", " ", "brain", " ", "might", " ", "be", " ", "on", " ", "autopilot!",
      " ", "What's", " ", "up", " ", "with", " ", "you", " ", "today?" >>

fallback_normal_2 ==
    << "Haha,", " ", "sometimes", " ", "I", " ", "just", " ", "space", " ", "out.", " ",
      "Want", " ", "to", " ", "share", " ", "what's", " ", "on", " ", "your", " ", "mind?" >>


\* texts the generation model may answer with
reply_short ==
    << "I", " ", "hear", " ", "you.", " ", "You", " ", "matter!" >>

reply_five ==
    << "One.", " ", "Two!", " ", "Three?", " ", "Four.", " ", "Five." >>

reply_padded ==
    << " ", " ", "Stay", " ", "with", " ", "me.", "\n", "Please", " ", "call", " ", "911", " ",
      "now.", " ", " " >>

reply_other_hotline ==
    << "Call", " ", "the", " ", "988", " ", "Lifeline.", " ", "They", " ", "can", " ", "help." >>


\* the tokens of this model's texts that end in . ! or ?
SentenceEnders ==
    { "4.", "Five.", "Four.", "Lifeline.", "One.", "Three?", "Two!",
      "alone.", "autopilot!", "help.", "listening.", "loss.", "love.", "matter!", "me.",
      "mind?", "now.", "out.", "pass.", "safe.", "this.", "today?", "valid.", "you.",
      "supportive.", "tired." }


\* ------------------------------------------------------------ add_breaks

\* mutant: a colon ends a sentence too
EndsSentenceOrClause(tok) ==
    tok \in SentenceEnders \cup {"Hotline**:", "Philippines**:", "Services**:", "(Cebu):",
                                 "Helpline**:"}

\* the character before the whitespace is one of . ! ?
EndsSentence(tok) == tok \in SentenceEnders

RECURSIVE tok_strip(_)
tok_strip(text) ==
    IF Len(text) = 0 THEN text
    ELSE IF IsSpace(text[1]) THEN tok_strip(Tail(text))
    ELSE IF IsSpace(text[Len(text)]) THEN tok_strip(SubSeq(text, 1, Len(text) - 1))
    ELSE text

\* re.split(r'(?<=[.!?])\s+', text): cut at every whitespace run that follows . ! or ?
RECURSIVE split_sentences(_)
split_sentences(text) ==
    LET cuts == {i \in 2..Len(text) :
                    IsSpace(text[i]) /\ ~IsSpace(text[i - 1]) /\ EndsSentence(text[i - 1])}
    IN  IF cuts = {} THEN <<text>>
        ELSE LET m == CHOOSE i \in cuts : \A j \in cuts : i <= j
                 rest == {j \in (m + 1)..Len(text) : ~IsSpace(text[j])}
                 n == IF rest = {} THEN Len(text) + 1
                      ELSE CHOOSE j \in rest : \A k \in rest : j <= k
             IN  <<SubSeq(text, 1, m - 1)>> \o split_sentences(SubSeq(text, n, Len(text)))

\* sep.join(parts)
RECURSIVE join(_, _)
join(sep, parts) ==
    IF Len(parts) = 0 THEN <<>>
    ELSE IF Len(parts) = 1 THEN parts[1]
    ELSE parts[1] \o sep \o join(sep, Tail(parts))

max_sentences == 4

add_breaks(text) ==
    LET sentences == split_sentences(tok_strip(text))
        count == (Len(sentences) + max_sentences - 1) \div max_sentences
        paragraphs == [p \in 1..count |->
            join(<<" ">>, SubSeq(sentences, (p - 1) * max_sentences + 1,
                     IF p * max_sentences < Len(sentences) THEN p * max_sentences
                     ELSE Len(sentences)))]
    IN  join(<<"\n", "\n">>, paragraphs)

\* ------------------------------------------------------------ generate_reply

RECURSIVE bullets(_)
bullets(hotlines) ==
    IF Len(hotlines) = 0 THEN <<>>
    ELSE <<"<U+2022>", " ">> \o hotlines[1] \o <<"\n">> \o bullets(Tail(hotlines))

\* lines 301-308
crisis_resources_text ==
    crisis_header \o bullets(national_hotlines)
        \o <<"\n", "<U+2022>", " ">> \o emergency \o <<"\n", "\n">>
        \o regional_header \o bullets(regional_hotlines) \o crisis_footer

\* line 363
fallback_msg == fallback_crisis_head \o crisis_resources_text \o fallback_crisis_tail

\* the fixed replies of the except branches (the normal branch draws one of two)
fallbacks(response_type) ==
    IF response_type = SituationCategory.immediate_danger THEN {fallback_msg}
    ELSE IF response_type = SituationCategory.grief THEN {fallback_grief}
    ELSE IF response_type = SituationCategory.panic THEN {fallback_panic}
    ELSE IF response_type = SituationCategory.high_distress THEN {fallback_distress}
    ELSE {fallback_normal_1, fallback_normal_2}

\* lines 40-59: the stripped text of a response, "" when it is blocked or empty
safe_get_response_text(response) ==
    IF response.kind = "text" /\ Len(response.text) > 0 THEN tok_strip(response.text)
    ELSE <<>>

\* lines 347-364 and the same shape in the other four branches: the replies
\* generate_reply can return once the generation call has returned `response`
reply_after_call(response_type, response) ==
    IF response.kind \in {"error", "timeout"} \/ safe_get_response_text(response) = <<>>
    THEN {add_breaks(f) : f \in fallbacks(response_type)}
    ELSE {add_breaks(safe_get_response_text(response))}

\* ------------------------------------------------------------ inputs of the pipeline

Capitalize(s) == IF Len(s) = 0 THEN s ELSE str_upper(<<s[1]>>) \o Tail(s)

\* every configured marker: alone in lower case and in upper case, and inside a longer
\* message in lower case and capitalized
MarkerTexts ==
    UNION {{explicit_crisis_markers[k],
            str_upper(explicit_crisis_markers[k]),
            <<"s","o"," ">> \o explicit_crisis_markers[k] \o <<" ","n","o","w">>,
            <<"s","o"," ">> \o Capitalize(explicit_crisis_markers[k]) \o <<"!">>} :
                k \in 1..Len(explicit_crisis_markers)}

OtherTexts ==
    { <<>>,
      <<"M","y"," ","d","o","g"," ","d","i","e","d",","," ","I"," ","W","a","n","t"," ","T","o"," ","D","i","e">>,
      <<"h","e","l","l","o">>,
      <<"M","y"," ","d","o","g"," ","D","I","E","D">>,
      <<"i"," ","m","i","s","s"," ","h","e","r">>,
      <<"I"," ","l","o","s","t"," ","m","y"," ","j","o","b">>,
      <<"t","h","i","s"," ","w","e","e","k"," ","i","s"," ","k","i","l","l","i","n","g"," ","m","e">>,
      <<"a"," ","E","u","r","o","p","e","a","n"," ","t","r","i","p">>,
      <<"I"," ","c","a","n","'","t"," ","b","r","e","a","t","h","e">> }

UserTexts == MarkerTexts \cup OtherTexts

EmotionEntries ==
    {[label |-> l, score |-> s] :
        l \in { <<"s","a","d","n","e","s","s">>, <<"S","a","d","n","e","s","s">>,
                <<"f","e","a","r">>, <<"a","n","g","e","r">>, <<"j","o","y">> },
        s \in {60, 61, 70, 71}}
    \cup {[score |-> 71], [label |-> <<"f","e","a","r">>]}

\* the empty list, every single entry, and longer lists (only emotions[0] decides)
EmotionLists ==
    {<<>>} \cup {<<e>> : e \in EmotionEntries} \cup
    {[i \in 1..n |-> IF i = 1 THEN [label |-> <<"f","e","a","r">>, score |-> 71]
                              ELSE [label |-> <<"j","o","y">>, score |-> 25]] :
        n \in 2..MaxEmotions}

\* what the classification call can return
ClassifyAnswers ==
    {[kind |-> "text", text |-> t] :
        t \in { <<>>,
                <<"n","o","r","m","a","l">>,
                <<"P","A","N","I","C">>,
                <<"G","r","i","e","f",".">>,
                <<" ","h","i","g","h","_","d","i","s","t","r","e","s","s","\n">>,
                <<"N","O","R","M","A","L",","," ","n","o","t"," ","P","A","N","I","C">>,
                <<"I"," ","a","m"," ","n","o","t"," ","s","u","r","e">>,
                <<"I","M","M","E","D","I","A","T","E","_","D","A","N","G","E","R">> }}
    \cup {[kind |-> k, text |-> <<>>] : k \in {"blocked", "error", "timeout"}}

reply_with_list == <<"Please", " ", "call", " ", "now.", "\n", "\n">> \o crisis_resources_text

\* what the reply-generation call can return
ReplyResponses ==
    {[kind |-> "text", text |-> t] :
        t \in { <<>>, <<" ">>, reply_short, reply_five, reply_padded, reply_other_hotline,
                reply_with_list }}
    \cup {[kind |-> k, text |-> <<>>] : k \in {"blocked", "error", "timeout"}}

\* ------------------------------------------------------------ the pipeline, step by step

GInit ==
    /\ g_pc = "idle"
    /\ g_text = NoText
    /\ g_emotions = <<>>
    /\ g_type = NoText
    /\ g_assess = NoAnswer
    /\ g_gen = NoAnswer
    /\ g_calls = <<>>
    /\ g_reply = NoText

\* generate_reply is called: assess_response_type runs up to its model call (line 178)
\* or returns before it (lines 101, 113)
GenerateReplyCall ==
    /\ g_pc = "idle"
    /\ \E t \in UserTexts, e \in EmotionLists :
        LET a == assess_before_call(t, e)
        IN  /\ g_text' = t
            /\ g_emotions' = e
            /\ g_calls' = a.calls
            /\ g_type' = a.type
            /\ g_pc' = IF a.type = NoText THEN "classify_wait" ELSE "classified"
    /\ UNCHANGED <<g_assess, g_gen, g_reply>>
    /\ UNCHANGED <<svars, avars, xvars>>

\* the classification call returns or raises; assess_response_type returns (lines 187-224)
ClassifyReturn ==
    /\ g_pc = "classify_wait"
    /\ \E answer \in ClassifyAnswers :
        /\ g_assess' = answer
        /\ g_type' = assess_after_call(g_emotions, answer)
    /\ g_calls' = Append(g_calls, "classify_return")
    /\ g_pc' = "classified"
    /\ UNCHANGED <<g_text, g_emotions, g_gen, g_reply>>
    /\ UNCHANGED <<svars, avars, xvars>>

\* the branch of response_type issues its generation call (lines 348, 398, 448, 514, 571)
ReplyCall ==
    /\ g_pc = "classified"
    /\ g_calls' = Append(g_calls, "reply_call")
    /\ g_pc' = "reply_wait"
    /\ UNCHANGED <<g_text, g_emotions, g_type, g_assess, g_gen, g_reply>>
    /\ UNCHANGED <<svars, avars, xvars>>

\* the generation call returns or raises; generate_reply returns its reply
ReplyReturn ==
    /\ g_pc = "reply_wait"
    /\ \E response \in ReplyResponses :
        /\ g_gen' = response
        /\ g_reply' \in reply_after_call(g_type, response)
    /\ g_pc' = "done"
    /\ UNCHANGED <<g_text, g_emotions, g_type, g_assess, g_calls>>
    /\ UNCHANGED <<svars, avars, xvars>>

\* the caller has the reply; the next message can come
GenerateReplyDone ==
    /\ g_pc = "done"
    /\ g_pc' = "idle"
    /\ g_text' = NoText
    /\ g_emotions' = <<>>
    /\ g_type' = NoText
    /\ g_assess' = NoAnswer
    /\ g_gen' = NoAnswer
    /\ g_calls' = <<>>
    /\ g_reply' = NoText
    /\ UNCHANGED <<svars, avars, xvars>>

NextReply ==
    \/ GenerateReplyCall
    \/ ClassifyReturn
    \/ ReplyCall
    \/ ReplyReturn
    \/ GenerateReplyDone

\* ------------------------------------------------------------ the consent-gated store

\* bounds of the model, and the rate limit of views.py
MaxMessages == 6

MaxSessions == 1

MaxRows == 4

MaxDeletions == 1

RATE_LIMIT_SECONDS == 5

\* the requesters: the browser of a logged-in user and the browser of an anonymous visitor
\* (whose anon_id is already in its browser session)
Browsers == {"user", "anon"}

is_authenticated(b) == b = "user"

\* request.user or the anon_id of the browser session: the owner of preferences and sessions
Ident(b) == b

\* an optional value: <<>> is None / no row / no cache entry, <<x>> is x
Some(x) == <<x>>

\* Message.set_plaintext / save and Message.plaintext, with ENCRYPTION_KEY set
encrypt_value(plaintext) == <<"gAAAA", plaintext>>

is_encrypted(value) == Len(value) = 2 /\ value[1] = "gAAAA"

decrypt_value(token) == IF is_encrypted(token) THEN token[2] ELSE token

\* Message(session=..., sender=..., text=...); set_plaintext(text); save()
Message(sender, text) ==
    LET set == encrypt_value(text)
    IN  [sender |-> sender, text |-> IF is_encrypted(set) THEN set ELSE encrypt_value(set)]

\* {"role": m.sender, "text": m.plaintext}
serialized(m) == [role |-> m.sender, text |-> decrypt_value(m.text)]

\* the text of the k-th message a browser submits, and of the reply to it
Turn(role, b, k) == [role |-> role, text |-> <<b, k>>]

_check_consent(prefs) == prefs.data_consent

\* lines 386-417: the preferences object of the request, and the row and the cache
\* entry the lookup leaves behind.  The cache holds a pickled copy: what was set, not
\* what the request later does to its object.
_get_or_create_preferences(b) ==
    IF prefs_cache[Ident(b)] # <<>>
    THEN [prefs |-> prefs_cache[Ident(b)][1], db |-> prefs_db, cache |-> prefs_cache]
    ELSE LET row == IF prefs_db[Ident(b)] # <<>> THEN prefs_db[Ident(b)][1]
                    ELSE [data_consent |-> is_authenticated(b)]
         IN  [prefs |-> row,
              db |-> [prefs_db EXCEPT ![Ident(b)] = Some(row)],
              cache |-> [prefs_cache EXCEPT ![Ident(b)] = Some(row)]]

Max(S) == CHOOSE x \in S : \A y \in S : y <= x

\* mutant: the lookups do not filter by owner
owned_or_not(b, ss) == DOMAIN ss

owned(b, ss) == {sid \in DOMAIN ss : ss[sid].owner = Ident(b)}

new_session(b) == [owner |-> Ident(b), messages |-> <<>>, summary |-> <<>>, memory |-> <<>>]

\* mutant: the stored id is looked up without the caller's identity in the filter
session_of_unfiltered(b, current_chat_session_id, ss, id) ==
    IF current_chat_session_id # <<>> /\ current_chat_session_id[1] \in DOMAIN ss
    THEN [sid |-> current_chat_session_id[1], sessions |-> ss, next_sid |-> id]
    ELSE IF owned(b, ss) # {}
    THEN [sid |-> Max(owned(b, ss)), sessions |-> ss, next_sid |-> id]
    ELSE [sid |-> id,
          sessions |-> (id :> new_session(b)) @@ ss,
          next_sid |-> id + 1]

\* lines 420-461: the session of the request; the stored current id when it names a
\* session of the caller, else the caller's most recent session, else a new one
session_of(b, current_chat_session_id, ss, id) ==
    IF current_chat_session_id # <<>> /\ current_chat_session_id[1] \in owned(b, ss)
    THEN [sid |-> current_chat_session_id[1], sessions |-> ss, next_sid |-> id]
    ELSE IF owned(b, ss) # {}
    THEN [sid |-> Max(owned(b, ss)), sessions |-> ss, next_sid |-> id]
    ELSE [sid |-> id,
          sessions |-> (id :> new_session(b)) @@ ss,
          next_sid |-> id + 1]

\* the same for a request that is served alone: its browser session is the stored one
_get_or_create_session(b) == session_of(b, current[b], sessions, next_sid)

\* how many sessions the requests of `b` have created so far (the sessions of the other
\* identity were there before), those that were deleted from elsewhere not counted
SessionsCreated(b) ==
    next_sid - 1 - Cardinality(DOMAIN sessions \ owned(b, sessions)) - Cardinality(o_deleted)

\* _get_or_create_session would have to create a session beyond the model's bound
SessionBoundHit(b) ==
    /\ ~(current[b] # <<>> /\ current[b][1] \in owned(b, sessions))
    /\ owned(b, sessions) = {}
    /\ SessionsCreated(b) >= MaxSessions

\* migrating the buffer and storing `turns` more rows would exceed the model's bound on
\* the Message rows of the session
RowBoundHit(b, turns) ==
    LET s == _get_or_create_session(b)
    IN  Len(s.sessions[s.sid].messages) + Len(buffer[b]) + turns > MaxRows

\* lines 117-124: the buffer with the user turn appended, cut to its last 10
buffer_with_user(history, turn) ==
    LET h == Append(history, turn)
    IN  IF Len(h) > 10 THEN SubSeq(h, Len(h) - 9, Len(h)) ELSE h

\* lines 230-250: summary and memory after the user turn `k` of browser `b` is stored.
\* A summary or memory is <<>> (None) or the turn it was last computed at; <<"default">>
\* is update_summary's fixed text.
user_msg_count(messages) == Len(SelectSeq(messages, LAMBDA m : m.sender = "user"))

update_summary(existing, b, k, ok) ==
    IF ok THEN <<b, k>> ELSE IF existing = <<>> THEN <<"default">> ELSE existing

\* mutant: the summary is due on every third user turn only
summary_due_third(messages) == user_msg_count(messages) % 3 = 0

\* line 232: the summary is due for the first 6 user turns, then for every third
summary_due(messages) ==
    user_msg_count(messages) <= 6 \/ user_msg_count(messages) % 3 = 0

summary_after(s, b, k, ok) ==
    IF summary_due(s.messages)
    THEN update_summary(s.summary, b, k, ok)
    ELSE s.summary

\* mutant: the user turn is committed on its own
persist_user_turn(s, b, k, ok) ==
    [s EXCEPT !.messages = Append(s.messages, Message("user", <<b, k>>))]

\* lines 204-250: the session with the user turn, the bot turn, summary and memory written
persist_exchange(s, b, k, ok) ==
    LET with_turns == [s EXCEPT !.messages =
                           s.messages \o <<Message("user", <<b, k>>), Message("bot", <<b, k>>)>>]
    IN  [with_turns EXCEPT !.summary = summary_after(with_turns, b, k, ok),
                           !.memory = <<b, k>>]

\* lines 161-174: one Message per buffered turn, in buffer order
migrate(s, history) ==
    [s EXCEPT !.messages = s.messages
        \o [i \in 1..Len(history) |-> Message(history[i].role, history[i].text)]]

\* lines 83-103: the request's preferences object after the consent and tone fields of
\* the request are applied and saved; the cache entry is not refreshed
chat_preferences(b, consent_given, tone) ==
    LET found == _get_or_create_preferences(b)
        consented == IF consent_given # <<>>
                     THEN [found.prefs EXCEPT !.data_consent = consent_given[1]]
                     ELSE found.prefs
    IN  [prefs |-> consented,
         db |-> IF consent_given # <<>> \/ tone # <<>>
                THEN [found.db EXCEPT ![Ident(b)] = Some(consented)]
                ELSE found.db,
         cache |-> found.cache]

\* update_summary's generation call answers (TRUE) or raises (FALSE)
SummaryOutcomes == {TRUE}

ConsentInputs == {<<>>, <<TRUE>>, <<FALSE>>}

ToneInputs == {<<>>, <<"casual">>}

\* the answer to a request: the view, the HTTP status, what failed (if anything),
\* whether it carries a reply to a message, and the sessions whose id, turns, summary
\* or memory it carries
Response(op, status, cause, reply, sids) ==
    [op |-> op, status |-> status, cause |-> cause, reply |-> reply, sids |-> sids,
     current_session_id |-> <<>>]

\* lines 711-714: the answer of api_chat_sessions carries the listed sessions and the id
\* of the session marked is_current
response_data(listed, current_session_id) ==
    [sids |-> listed, current_session_id |-> current_session_id]

ListResponse(data) ==
    [Response("api_chat_sessions", 200, "", FALSE, data.sids)
        EXCEPT !.current_session_id = data.current_session_id]

NoResponseYet == Response("", 0, "", FALSE, {})

\* the ids a request can name: the rows there can be, and one that is no row
SessionIds == 1..(MaxSessions + 2)

\* a session the other identity stored (with its consent) before the run starts
stored_session(o) == persist_exchange(new_session(o), o, 1, TRUE)

\* The run follows one browser.  The database is empty, or it holds a session of the
\* other identity.  The browser session of the logged-in user may then still name
\* that session as current: the browser chatted anonymously before a social-auth login,
\* which keeps the browser session (django login() cycles the key and keeps the data)
\* and moves no ChatSession row (oauth_pipeline.py).
SInit ==
    /\ client \in Browsers
    /\ rate = [b \in Browsers |-> <<>>]
    /\ prefs_cache = [b \in Browsers |-> <<>>]
    /\ buffer = [b \in Browsers |-> <<>>]
    /\ list_cache = [b \in Browsers |-> <<>>]
    /\ resp = NoResponseYet
    /\ \/ /\ sessions = <<>>
          /\ next_sid = 1
          /\ prefs_db = [b \in Browsers |-> <<>>]
          /\ sent = [b \in Browsers |-> 0]
          /\ current = [b \in Browsers |-> <<>>]
       \/ \E o \in Browsers \ {client} :
          /\ sessions = (1 :> stored_session(o))
          /\ next_sid = 2
          /\ prefs_db = [b \in Browsers |-> IF b = o THEN Some([data_consent |-> TRUE])
                                             ELSE <<>>]
          /\ sent = [b \in Browsers |-> IF b = o THEN 1 ELSE 0]
          /\ \/ current = [b \in Browsers |-> <<>>]
             \/ /\ is_authenticated(client)
                /\ current = [b \in Browsers |-> IF b = client THEN Some(1) ELSE <<>>]

\* mutant: the limit ends a second early
rate_limited_early(b) == rate[b] # <<>> /\ rate[b][1] < RATE_LIMIT_SECONDS - 1

\* lines 57-62: a request of this requester came less than RATE_LIMIT_SECONDS ago
rate_limited(b) == rate[b] # <<>> /\ rate[b][1] < RATE_LIMIT_SECONDS

\* lines 60-67: 429, nothing is touched
ApiChatRateLimited(b) ==
    /\ b = client
    /\ resp = NoResponseYet
    /\ rate_limited(b)
    /\ UNCHANGED <<rate, prefs_db, prefs_cache, buffer, current, sessions, next_sid, sent>>
    /\ resp' = Response("api_chat", 429, "rate_limit", FALSE, {})
    /\ UNCHANGED list_cache
    /\ UNCHANGED <<gvars, avars, xvars, client>>

\* lines 70-80: the timestamp is stored, then the empty message is refused
ApiChatNoMessage(b) ==
    /\ b = client
    /\ resp = NoResponseYet
    /\ ~rate_limited(b)
    /\ rate' = [rate EXCEPT ![b] = Some(0)]
    /\ UNCHANGED <<prefs_db, prefs_cache, buffer, current, sessions, next_sid, sent>>
    /\ resp' = Response("api_chat", 400, "no_message", FALSE, {})
    /\ UNCHANGED list_cache
    /\ UNCHANGED <<gvars, avars, xvars, client>>

\* lines 105-110 raise: the preferences are saved already, the answer is a 500
ApiChatScoringFails(b) ==
    /\ b = client
    /\ resp = NoResponseYet
    /\ ~rate_limited(b)
    /\ rate' = [rate EXCEPT ![b] = Some(0)]
    /\ \E consent_given \in ConsentInputs, tone \in ToneInputs :
        LET p == chat_preferences(b, consent_given, tone)
        IN  /\ prefs_db' = p.db
            /\ prefs_cache' = p.cache
    /\ UNCHANGED <<buffer, current, sessions, next_sid, sent>>
    /\ resp' = Response("api_chat", 500, "emotion_scoring", FALSE, {})
    /\ UNCHANGED list_cache
    /\ UNCHANGED <<gvars, avars, xvars, client>>

\* lines 115-153: no consent, the exchange goes to the browser session only
ApiChatEphemeral(b) ==
    /\ b = client
    /\ resp = NoResponseYet
    /\ ~rate_limited(b)
    /\ sent[b] < MaxMessages
    /\ rate' = [rate EXCEPT ![b] = Some(0)]
    /\ \E consent_given \in ConsentInputs, tone \in ToneInputs :
        LET p == chat_preferences(b, consent_given, tone)
            k == sent[b] + 1
        IN  /\ ~_check_consent(p.prefs)
            /\ prefs_db' = p.db
            /\ prefs_cache' = p.cache
            /\ buffer' = [buffer EXCEPT ![b] =
                            Append(buffer_with_user(@, Turn("user", b, k)), Turn("bot", b, k))]
            /\ sent' = [sent EXCEPT ![b] = k]
    /\ UNCHANGED <<current, sessions, next_sid>>
    /\ resp' = Response("api_chat", 200, "", TRUE, {})
    /\ UNCHANGED list_cache
    /\ UNCHANGED <<gvars, avars, xvars, client>>

\* lines 155-174 with a write of the migration failing: the block is rolled back, the
\* answer is a 500 and the browser session is not saved
ApiChatMigrationFails(b) ==
    /\ b = client
    /\ resp = NoResponseYet
    /\ ~rate_limited(b)
    /\ ~SessionBoundHit(b)
    /\ buffer[b] # <<>>
    /\ rate' = [rate EXCEPT ![b] = Some(0)]
    /\ \E consent_given \in ConsentInputs, tone \in ToneInputs :
        LET p == chat_preferences(b, consent_given, tone)
            s == _get_or_create_session(b)
        IN  /\ _check_consent(p.prefs)
            /\ prefs_db' = p.db
            /\ prefs_cache' = p.cache
            /\ sessions' = s.sessions
            /\ next_sid' = s.next_sid
    /\ UNCHANGED <<buffer, current, sent>>
    /\ resp' = Response("api_chat", 500, "database", FALSE, {})
    /\ UNCHANGED list_cache
    /\ UNCHANGED <<gvars, avars, xvars, client>>

\* lines 155-250 with a write of the second atomic block failing: the migration is
\* committed, the exchange is rolled back, the answer is a 500 and the browser session
\* (buffer removed, current id set) is not saved
ApiChatPersistFails(b) ==
    /\ b = client
    /\ resp = NoResponseYet
    /\ ~rate_limited(b)
    /\ ~SessionBoundHit(b) /\ ~RowBoundHit(b, 0)
    /\ rate' = [rate EXCEPT ![b] = Some(0)]
    /\ \E consent_given \in ConsentInputs, tone \in ToneInputs :
        LET p == chat_preferences(b, consent_given, tone)
            s == _get_or_create_session(b)
        IN  /\ _check_consent(p.prefs)
            /\ prefs_db' = p.db
            /\ prefs_cache' = p.cache
            /\ sessions' = [s.sessions EXCEPT ![s.sid] = migrate(@, buffer[b])]
            /\ next_sid' = s.next_sid
    /\ UNCHANGED <<buffer, current, sent>>
    /\ resp' = Response("api_chat", 500, "database", FALSE, {})
    \* the cache entry is deleted inside the block (lines 222-226), before or after the failing write
    /\ list_cache' \in {list_cache, [list_cache EXCEPT ![Ident(b)] = <<>>]}
    /\ UNCHANGED <<gvars, avars, xvars, client>>

\* lines 155-261: consent, the buffer is migrated and the exchange is persisted
ApiChatDurable(b) ==
    /\ b = client
    /\ resp = NoResponseYet
    /\ ~rate_limited(b)
    /\ ~SessionBoundHit(b) /\ ~RowBoundHit(b, 2)
    /\ sent[b] < MaxMessages
    /\ rate' = [rate EXCEPT ![b] = Some(0)]
    /\ \E consent_given \in ConsentInputs, tone \in ToneInputs, summary_ok \in SummaryOutcomes :
        LET p == chat_preferences(b, consent_given, tone)
            s == _get_or_create_session(b)
            k == sent[b] + 1
        IN  /\ _check_consent(p.prefs)
            /\ prefs_db' = p.db
            /\ prefs_cache' = p.cache
            /\ sessions' = [s.sessions EXCEPT ![s.sid] =
                              persist_exchange(migrate(@, buffer[b]), b, k, summary_ok)]
            /\ next_sid' = s.next_sid
            /\ current' = [current EXCEPT ![b] = Some(s.sid)]
            /\ sent' = [sent EXCEPT ![b] = k]
    /\ buffer' = [buffer EXCEPT ![b] = <<>>]
    /\ resp' = Response("api_chat", 200, "", TRUE, {_get_or_create_session(b).sid})
    /\ list_cache' = [list_cache EXCEPT ![Ident(b)] = <<>>]
    /\ UNCHANGED <<gvars, avars, xvars, client>>

\* lines 50-265
ApiChat ==
    \E b \in Browsers :
        \/ ApiChatRateLimited(b)
        \/ ApiChatNoMessage(b)
        \/ ApiChatScoringFails(b)
        \/ ApiChatEphemeral(b)
        \/ ApiChatMigrationFails(b)
        \/ ApiChatPersistFails(b)
        \/ ApiChatDurable(b)

\* lines 464-469 and 573-591: GET of the chat page
ChatGet(b) ==
    /\ b = client
    /\ resp = NoResponseYet
    /\ ~SessionBoundHit(b)
    /\ LET p == _get_or_create_preferences(b)
           s == _get_or_create_session(b)
       IN  /\ prefs_db' = p.db
           /\ prefs_cache' = p.cache
           /\ sessions' = s.sessions
           /\ next_sid' = s.next_sid
           /\ current' = [current EXCEPT ![b] = Some(s.sid)]
    /\ UNCHANGED <<rate, buffer, sent>>
    /\ resp' = Response("chat", 200, "", FALSE, {_get_or_create_session(b).sid})
    /\ UNCHANGED list_cache
    /\ UNCHANGED <<gvars, avars, xvars, client>>

\* lines 472-492: the preferences form; the cache entry is dropped
ChatUpdatePrefs(b) ==
    /\ b = client
    /\ resp = NoResponseYet
    /\ ~SessionBoundHit(b)
    /\ LET p == _get_or_create_preferences(b)
            s == _get_or_create_session(b)
            saved == p.prefs
        IN  /\ prefs_db' = [p.db EXCEPT ![Ident(b)] = Some(saved)]
            /\ prefs_cache' = [p.cache EXCEPT ![Ident(b)] = <<>>]
            /\ sessions' = s.sessions
            /\ next_sid' = s.next_sid
            /\ current' = [current EXCEPT ![b] = Some(s.sid)]
    /\ UNCHANGED <<rate, buffer, sent>>
    /\ resp' = Response("chat", 302, "", FALSE, {})
    /\ UNCHANGED list_cache
    /\ UNCHANGED <<gvars, avars, xvars, client>>

\* lines 503-591: the message form; the exchange is persisted whatever the consent
ChatPost(b) ==
    /\ b = client
    /\ resp = NoResponseYet
    /\ ~SessionBoundHit(b)
    /\ LET s == _get_or_create_session(b)
       IN  Len(s.sessions[s.sid].messages) + 2 <= MaxRows
    /\ sent[b] < MaxMessages
    /\ \E summary_ok \in SummaryOutcomes :
        LET p == _get_or_create_preferences(b)
            s == _get_or_create_session(b)
            k == sent[b] + 1
        IN  /\ prefs_db' = p.db
            /\ prefs_cache' = p.cache
            /\ sessions' = [s.sessions EXCEPT ![s.sid] = persist_exchange(@, b, k, summary_ok)]
            /\ next_sid' = s.next_sid
            /\ current' = [current EXCEPT ![b] = Some(s.sid)]
            /\ sent' = [sent EXCEPT ![b] = k]
    /\ UNCHANGED <<rate, buffer>>
    /\ resp' = Response("chat", 200, "", TRUE, {_get_or_create_session(b).sid})
    /\ UNCHANGED list_cache
    /\ UNCHANGED <<gvars, avars, xvars, client>>

\* lines 503-571 with the scoring call or a write raising: nothing of the exchange is
\* stored, the view has no handler, the answer is a 500 and the browser session is not saved
ChatPostFails(b) ==
    /\ b = client
    /\ resp = NoResponseYet
    /\ ~SessionBoundHit(b)
    /\ LET p == _get_or_create_preferences(b)
           s == _get_or_create_session(b)
       IN  /\ prefs_db' = p.db
           /\ prefs_cache' = p.cache
           /\ sessions' = s.sessions
           /\ next_sid' = s.next_sid
    /\ UNCHANGED <<rate, buffer, current, sent>>
    /\ \E cause \in {"emotion_scoring", "database"} :
        resp' = Response("chat", 500, cause, FALSE, {})
    /\ UNCHANGED list_cache
    /\ UNCHANGED <<gvars, avars, xvars, client>>

\* lines 464-591
Chat ==
    \E b \in Browsers : ChatGet(b) \/ ChatUpdatePrefs(b) \/ ChatPost(b) \/ ChatPostFails(b)

\* lines 316-346
ApiChatContext ==
    \E b \in Browsers :
        /\ b = client
        /\ resp = NoResponseYet
        /\ LET p == _get_or_create_preferences(b)
               s == _get_or_create_session(b)
           IN  /\ prefs_db' = p.db
               /\ prefs_cache' = p.cache
               /\ IF _check_consent(p.prefs)
                  THEN /\ ~SessionBoundHit(b)
                       /\ sessions' = s.sessions
                       /\ next_sid' = s.next_sid
                       /\ current' = [current EXCEPT ![b] = Some(s.sid)]
                  ELSE UNCHANGED <<sessions, next_sid, current>>
               /\ UNCHANGED <<rate, buffer, sent>>
        /\ resp' = Response("api_chat_context", 200, "", FALSE,
                            IF _check_consent(_get_or_create_preferences(b).prefs)
                            THEN {_get_or_create_session(b).sid} ELSE {})
        /\ UNCHANGED list_cache
        /\ UNCHANGED <<gvars, avars, xvars, client>>

\* lines 351-363
ApiClearAnonymousChat ==
    \E b \in Browsers :
        /\ b = client
        /\ resp = NoResponseYet
        /\ buffer' = [buffer EXCEPT ![b] = <<>>]
        /\ UNCHANGED <<rate, prefs_db, prefs_cache, current, sessions, next_sid, sent>>
        /\ resp' = Response("api_clear_anonymous_chat", 200, "", FALSE, {})
        /\ UNCHANGED list_cache
        /\ UNCHANGED <<gvars, avars, xvars, client>>

\* lines 596-634
ApiNewChat ==
    \E b \in Browsers :
        /\ b = client
        /\ resp = NoResponseYet
        /\ LET p == _get_or_create_preferences(b)
           IN  /\ prefs_db' = p.db
               /\ prefs_cache' = p.cache
               /\ IF _check_consent(p.prefs)
                  THEN /\ SessionsCreated(b) < MaxSessions
                       /\ sessions' = (next_sid :> new_session(b)) @@ sessions
                       /\ next_sid' = next_sid + 1
                       /\ current' = [current EXCEPT ![b] = Some(next_sid)]
                       /\ UNCHANGED buffer
                  ELSE /\ buffer' = [buffer EXCEPT ![b] = <<>>]
                       /\ UNCHANGED <<sessions, next_sid, current>>
               /\ UNCHANGED <<rate, sent>>
        /\ resp' = Response("api_new_chat", 200, "", FALSE,
                            IF _check_consent(_get_or_create_preferences(b).prefs)
                            THEN {next_sid} ELSE {})
        /\ list_cache' = IF _check_consent(_get_or_create_preferences(b).prefs)
                         THEN [list_cache EXCEPT ![Ident(b)] = <<>>]
                         ELSE list_cache
        /\ UNCHANGED <<gvars, avars, xvars, client>>

\* lines 847-851: an anonymous requester may not enable storage
ApiConsentRefused(b) ==
    /\ b = client
    /\ resp = NoResponseYet
    /\ ~is_authenticated(b)
    /\ UNCHANGED <<rate, prefs_db, prefs_cache, buffer, current, sessions, next_sid, sent>>
    /\ resp' = Response("api_consent", 403, "forbidden", FALSE, {})
    /\ UNCHANGED list_cache
    /\ UNCHANGED <<gvars, avars, xvars, client>>

\* lines 853-885: consent is saved, the cache entry dropped, the buffer removed on a
\* revocation; nothing is migrated here
ApiConsentSet(b, consent_given) ==
    /\ b = client
    /\ resp = NoResponseYet
    /\ ~(consent_given /\ ~is_authenticated(b))
    /\ LET p == _get_or_create_preferences(b)
           saved == [p.prefs EXCEPT !.data_consent = consent_given]
       IN  /\ prefs_db' = [p.db EXCEPT ![Ident(b)] = Some(saved)]
           /\ prefs_cache' = [p.cache EXCEPT ![Ident(b)] = <<>>]
           /\ buffer' = IF p.prefs.data_consent /\ ~consent_given
                        THEN [buffer EXCEPT ![b] = <<>>]
                        ELSE buffer
    /\ UNCHANGED <<rate, current, sessions, next_sid, sent>>
    /\ resp' = Response("api_consent", 200, "", FALSE, {})
    /\ UNCHANGED list_cache
    /\ UNCHANGED <<gvars, avars, xvars, client>>

\* lines 840-889
ApiConsent ==
    \E b \in Browsers :
        \/ ApiConsentRefused(b)
        \/ \E consent_given \in BOOLEAN : ApiConsentSet(b, consent_given)

\* lines 638-726: the sessions of the caller with the current one marked, from the cache
\* entry of its identity when there is one; the queryset is read after the current
\* session is resolved, and the answer is cached
ApiChatSessions ==
    \E b \in Browsers :
        /\ b = client
        /\ resp = NoResponseYet
        /\ IF list_cache[Ident(b)] # <<>>
           THEN /\ resp' = ListResponse(list_cache[Ident(b)][1])
                /\ UNCHANGED <<sessions, next_sid, current, list_cache>>
           ELSE /\ ~SessionBoundHit(b)
                /\ LET s == _get_or_create_session(b)
                       listed == owned(b, s.sessions)
                   IN  /\ sessions' = s.sessions
                       /\ next_sid' = s.next_sid
                       /\ current' = [current EXCEPT ![b] = Some(s.sid)]
                       /\ list_cache' = [list_cache EXCEPT ![Ident(b)] =
                                            Some(response_data(listed, Some(s.sid)))]
                       /\ resp' = ListResponse(response_data(listed, Some(s.sid)))
        /\ UNCHANGED <<rate, prefs_db, prefs_cache, buffer, sent>>
        /\ UNCHANGED <<gvars, avars, xvars, client>>

\* lines 730-762: the turns, summary and memory of the named session of the caller, or 404
ApiChatSessionDetail ==
    \E b \in Browsers :
        /\ b = client
        /\ resp = NoResponseYet
        /\ \E session_id \in SessionIds :
            resp' = IF session_id \in owned(b, sessions)
                    THEN Response("api_chat_session_detail", 200, "", FALSE, {session_id})
                    ELSE Response("api_chat_session_detail", 404, "not_found", FALSE, {})
        /\ UNCHANGED <<rate, prefs_db, prefs_cache, buffer, current, sessions, next_sid, sent,
                       list_cache>>
        /\ UNCHANGED <<gvars, avars, xvars, client>>

\* lines 766-786: the named session of the caller becomes the current one, or 404
ApiSwitchSession ==
    \E b \in Browsers :
        /\ b = client
        /\ resp = NoResponseYet
        /\ \E session_id \in SessionIds :
            IF session_id \in owned(b, sessions)
            THEN /\ current' = [current EXCEPT ![b] = Some(session_id)]
                 /\ resp' = Response("api_switch_session", 200, "", FALSE, {session_id})
            ELSE /\ resp' = Response("api_switch_session", 404, "not_found", FALSE, {})
                 /\ UNCHANGED current
        /\ UNCHANGED <<rate, prefs_db, prefs_cache, buffer, sessions, next_sid, sent, list_cache>>
        /\ UNCHANGED <<gvars, avars, xvars, client>>

\* lines 790-820: the named session of the caller is deleted with its turns, and the
\* current id with it when it named that session; or 404
ApiDeleteSession ==
    \E b \in Browsers :
        /\ b = client
        /\ resp = NoResponseYet
        /\ \E session_id \in SessionIds :
            IF session_id \in owned(b, sessions)
            THEN /\ sessions' = [sid \in DOMAIN sessions \ {session_id} |-> sessions[sid]]
                 /\ current' = IF current[b] = Some(session_id)
                               THEN [current EXCEPT ![b] = <<>>]
                               ELSE current
                 /\ resp' = Response("api_delete_session", 200, "", FALSE, {})
            ELSE /\ resp' = Response("api_delete_session", 404, "not_found", FALSE, {})
                 /\ UNCHANGED <<sessions, current>>
        /\ UNCHANGED <<rate, prefs_db, prefs_cache, buffer, next_sid, sent, list_cache>>
        /\ UNCHANGED <<gvars, avars, xvars, client>>

\* lines 790-820, called from another browser session of the same account: a session of
\* the identity is deleted, and the current id of the followed browser session is not
\* touched, as it is not the request's
ApiDeleteSessionElsewhere ==
    /\ is_authenticated(client)
    /\ Cardinality(o_deleted) < MaxDeletions
    /\ resp = NoResponseYet
    /\ \E session_id \in owned(client, sessions) :
        /\ sessions' = [sid \in DOMAIN sessions \ {session_id} |-> sessions[sid]]
        /\ o_deleted' = o_deleted \cup {session_id}
    /\ UNCHANGED <<rate, prefs_db, prefs_cache, buffer, current, next_sid, sent, list_cache,
                   resp, client>>
    /\ UNCHANGED <<gvars, avars, mvars, evars, cvars, tvars>>

\* lines 824-835
ApiCurrentSession ==
    \E b \in Browsers :
        /\ b = client
        /\ resp = NoResponseYet
        /\ ~SessionBoundHit(b)
        /\ LET s == _get_or_create_session(b)
           IN  /\ sessions' = s.sessions
               /\ next_sid' = s.next_sid
               /\ current' = [current EXCEPT ![b] = Some(s.sid)]
               /\ resp' = Response("api_current_session", 200, "", FALSE, {s.sid})
        /\ UNCHANGED <<rate, prefs_db, prefs_cache, buffer, sent, list_cache>>
        /\ UNCHANGED <<gvars, avars, xvars, client>>

\* the cached answer of api_chat_sessions times out (line 721) or is evicted
ListCacheExpire ==
    \E b \in Browsers :
        /\ b = client
        /\ resp = NoResponseYet
        /\ list_cache[Ident(b)] # <<>>
        /\ list_cache' = [list_cache EXCEPT ![Ident(b)] = <<>>]
        /\ UNCHANGED <<rate, prefs_db, prefs_cache, buffer, current, sessions, next_sid, sent,
                       resp>>
        /\ UNCHANGED <<gvars, avars, xvars, client>>

\* the pauses between two requests, in seconds: just short of the limit, and the limit
Waits == {RATE_LIMIT_SECONDS - 1, RATE_LIMIT_SECONDS}

\* time passes: the rate-limit entries age and expire RATE_LIMIT_SECONDS + 1 after
\* they were set (line 70)
Tick ==
    /\ resp = NoResponseYet
    /\ \E b \in Browsers : rate[b] # <<>>
    /\ \E wait \in Waits :
        rate' = [b \in Browsers |->
                  IF rate[b] = <<>> \/ rate[b][1] + wait >= RATE_LIMIT_SECONDS + 1 THEN <<>>
                  ELSE Some(rate[b][1] + wait)]
    /\ UNCHANGED <<prefs_db, prefs_cache, buffer, current, sessions, next_sid, sent>>
    /\ UNCHANGED <<list_cache, resp>>
    /\ UNCHANGED <<gvars, avars, xvars, client>>

\* a cached preferences entry times out (lines 403, 416) or is evicted
CacheExpire ==
    \E b \in Browsers :
        /\ b = client
        /\ resp = NoResponseYet
        /\ prefs_cache[Ident(b)] # <<>>
        /\ prefs_cache' = [prefs_cache EXCEPT ![Ident(b)] = <<>>]
        /\ UNCHANGED <<rate, prefs_db, buffer, current, sessions, next_sid, sent>>
        /\ UNCHANGED <<list_cache, resp>>
        /\ UNCHANGED <<gvars, avars, xvars, client>>

\* the client has the answer; the next request can come
ResponseSent ==
    /\ resp # NoResponseYet
    /\ resp' = NoResponseYet
    /\ UNCHANGED <<rate, prefs_db, prefs_cache, buffer, current, sessions, next_sid, sent,
                   list_cache>>
    /\ UNCHANGED <<gvars, avars, xvars, client>>

\* ------------------------------------------------------------ the sarcasm scorer (ai-service)
\* ai-service/app/main.py.  Scores, weights and thresholds are in thousandths (0.45 is
\* 450).  The process's environment maps each variable that is set to what the module
\* reads from it: [ok, value] for a number (ok = FALSE for a text float() rejects), a
\* sequence of characters for SARCASM_DEBUG, [json, coeffs] for SARCASM_LOGISTIC_COEFFS.

\* lines 99-105: the negative-event phrases, in the order of the alternation
NEG_EVENTS ==
    << <<"s","p","i","l","l","e","d">>,
       <<"s","p","i","l","l">>,
       <<"l","o","s","t">>,
       <<"c","a","n","c","e","l","l","e","d">>,
       <<"c","a","n","c","e","l","e","d">>,
       <<"d","e","l","a","y","e","d">>,
       <<"d","e","l","a","y">>,
       <<"c","r","a","s","h","e","d">>,
       <<"c","r","a","s","h">>,
       <<"s","t","o","p","p","e","d">>,
       <<"j","a","m","m","e","d">>,
       <<"d","i","e","d">>,
       <<"f","o","r","g","o","t">>,
       <<"b","r","o","k","e","n">>,
       <<"b","r","o","k","e">>,
       <<"m","i","s","s","e","d">>,
       <<"l","a","t","e">>,
       <<"t","i","c","k","e","t">>,
       <<"f","l","a","t"," ","t","i","r","e">>,
       <<"b","a","t","t","e","r","y">>,
       <<"d","e","a","d"," ","b","a","t","t","e","r","y">>,
       <<"f","i","r","e","d">>,
       <<"d","i","v","o","r","c","e">>,
       <<"h","o","s","p","i","t","a","l">>,
       <<"o","v","e","r","w","o","r","k","e","d">>,
       <<"b","u","r","n","e","d"," ","o","u","t">>,
       <<"p","r","i","n","t","e","r">>,
       <<"j","a","m">>,
       <<"c","a","n","c","e","l","l","a","t","i","o","n">>,
       <<"e","r","r","o","r">>,
       <<"c","r","a","s","h">>,
       <<"i","s","s","u","e">>,
       <<"p","r","o","b","l","e","m">>,
       <<"t","i","c","k","e","t">>,
       <<"f","i","n","e">> >>

\* lines 107-114: the positive-hyperbole phrases, in the order of the alternation
POS_EXAGG ==
    << <<"b","e","s","t"," ","d","a","y"," ","e","v","e","r">>,
       <<"l","i","v","i","n","g"," ","t","h","e"," ","d","r","e","a","m">>,
       <<"j","u","s","t"," ","w","h","a","t"," ","i"," ","n","e","e","d","e","d">>,
       <<"a","b","s","o","l","u","t","e","l","y"," ","p","e","r","f","e","c","t">>,
       <<"s","o"," ","a","m","a","z","i","n","g">>,
       <<"s","o"," ","w","o","n","d","e","r","f","u","l">>,
       <<"t","h","r","i","l","l","e","d"," ","b","e","y","o","n","d"," ","w","o","r","d","s">>,
       <<"t","r","u","l","y"," ","b","l","e","s","s","e","d">>,
       <<"c","o","u","l","d","n","'","t"," ","b","e"," ","h","a","p","p","i","e","r">>,
       <<"c","o","u","l","d","n","t"," ","b","e"," ","h","a","p","p","i","e","r">>,
       <<"f","a","n","t","a","s","t","i","c">>,
       <<"a","m","a","z","i","n","g">>,
       <<"w","o","n","d","e","r","f","u","l">>,
       <<"a","w","e","s","o","m","e">>,
       <<"j","u","s","t"," ","g","r","e","a","t">>,
       <<"p","e","r","f","e","c","t">>,
       <<"l","o","v","e","l","y">>,
       <<"s","o"," ","g","l","a","d">>,
       <<"c","o","u","l","d"," ","n","o","t"," ","b","e"," ","h","a","p","p","i","e","r">>,
       <<"c","o","u","l","d"," ","n","o","t"," ","b","e"," ","b","e","t","t","e","r">>,
       <<"d","r","e","a","m"," ","c","o","m","e"," ","t","r","u","e">> >>

\* line 119
PROFANITY ==
    { <<"f","u","c","k","i","n","g">>,
      <<"d","a","m","n">>,
      <<"s","h","i","t">>,
      <<"c","r","a","p">>,
      <<"h","e","l","l">>,
      <<"p","i","s","s","e","d">>,
      <<"b","i","t","c","h">>,
      <<"a","s","s","h","o","l","e">>,
      <<"b","u","l","l","s","h","i","t">>,
      <<"w","t","f">> }

\* request texts: no cue, a profanity inside a word, hyperbole with and without a
\* negative event, negative events alone, elongation, cues in upper case
SarcasmTexts ==
    { <<>>,
      <<"g","o","o","d"," ","m","o","r","n","i","n","g">>,
      <<"h","e","l","l","o"," ","t","h","e","r","e">>,
      <<"I"," ","s","p","i","l","l","e","d"," ","c","o","f","f","e","e"," ","e","v","e","r","y","w","h","e","r","e",","," ","b","e","s","t"," ","d","a","y"," ","e","v","e","r","!">>,
      <<"S","o"," ","A","M","A","Z","I","N","G",","," ","t","h","e"," ","i","n","t","e","r","n","e","t"," ","w","e","n","t"," ","d","o","w","n">>,
      <<"m","y"," ","f","l","i","g","h","t"," ","g","o","t"," ","d","e","l","a","y","e","d">>,
      <<"G","r","e","a","a","a","a","t",","," ","t","h","e"," ","p","r","i","n","t","e","r"," ","j","a","m","m","e","d">>,
      <<"d","a","m","n",","," ","I"," ","l","o","s","t"," ","m","y"," ","k","e","y","s"," ","a","n","d"," ","m","i","s","s","e","d"," ","t","h","e"," ","b","u","s">>,
      <<"P","e","r","f","e","c","t","."," ","A","n","o","t","h","e","r"," ","E","R","R","O","R">>,
      <<"s","o","o","o","o"," ","h","a","p","p","y">>,
      <<"F","I","N","E">> }

\* what the intent model's generation decodes to
T5Outputs ==
    { <<"s","a","r","c","a","s","m">>,
      <<"n","o","r","m","a","l">>,
      <<"S","a","r","c","a","s","t","i","c">>,
      <<>> }

sarcas == <<"s","a","r","c","a","s">>

Min(S) == CHOOSE x \in S : \A y \in S : x <= y

\* pattern p matches at position i of text (re.IGNORECASE)
MatchAt(text, i, p) ==
    /\ i + Len(p) - 1 <= Len(text)
    /\ str_lower(SubSeq(text, i, i + Len(p) - 1)) = str_lower(p)

\* re.findall / re.finditer of an alternation of literals: at the leftmost position
\* where an alternative matches the first such alternative is taken, and the scan goes
\* on behind the match
RECURSIVE regex_findall(_, _, _)
regex_findall(alts, text, i) ==
    IF i > Len(text) THEN <<>>
    ELSE LET ks == {k \in 1..Len(alts) : MatchAt(text, i, alts[k])}
         IN  IF ks = {} THEN regex_findall(alts, text, i + 1)
             ELSE LET p == alts[Min(ks)]
                  IN  <<SubSeq(text, i, i + Len(p) - 1)>> \o
                      regex_findall(alts, text, i + Len(p))

\* re.search of the same alternation
regex_search(alts, text) == regex_findall(alts, text, 1) # <<>>

\* ELONGATED = (.)\1{3,}: four or more times the same character, no newline
ELONGATED(text) ==
    \E i \in 1..(Len(text) - 3) :
        /\ text[i] # "\n"
        /\ \A j \in 1..3 : text[i + j] = text[i]

count_negatives(text) == Len(regex_findall(NEG_EVENTS, text, 1))

\* the distinct matches in lower case (the code sorts them; only their number is used)
list_negatives(text) ==
    LET ms == regex_findall(NEG_EVENTS, text, 1)
    IN  {str_lower(ms[k]) : k \in 1..Len(ms)}

\* mutant: the boost is a tenth
extra_positive_boost_small(text) ==
    IF regex_search(POS_EXAGG, str_lower(text)) THEN 100 ELSE 0

extra_positive_boost(text) == IF regex_search(POS_EXAGG, str_lower(text)) THEN 400 ELSE 0

\* t5_predict after the model has generated: the decoded generation decides
t5_predict(decoded) ==
    IF Contains(str_lower(decoded), sarcas) THEN "sarcastic" ELSE "not_sarcastic"

IRONY_LABEL_MAP == [LABEL_0 |-> "not_sarcastic", LABEL_1 |-> "sarcastic"]

\* os.getenv read through float()
_w(env, env_key, default) ==
    IF env_key \in DOMAIN env /\ env[env_key].ok THEN env[env_key].value ELSE default

STRICT_SARCASM_THRESHOLD(env) ==
    IF "SARCASM_STRICT_THRESHOLD" \in DOMAIN env
    THEN env["SARCASM_STRICT_THRESHOLD"].value ELSE 500

POSSIBLE_SARCASM_THRESHOLD(env) ==
    IF "SARCASM_POSSIBLE_THRESHOLD" \in DOMAIN env
    THEN env["SARCASM_POSSIBLE_THRESHOLD"].value ELSE 280

ENABLE_SARCASM_DEBUG(env) ==
    str_lower(Get(env, "SARCASM_DEBUG", <<"f","a","l","s","e">>))
        \in { <<"1">>, <<"t","r","u","e">>, <<"y","e","s">>, <<"o","n">> }

WEIGHT_IRONY_FLOOR(env) == _w(env, "SARCASM_WEIGHT_IRONY_FLOOR", 50)
WEIGHT_T5(env) == _w(env, "SARCASM_WEIGHT_T5", 600)
WEIGHT_CONTRADICTION(env) == _w(env, "SARCASM_WEIGHT_CONTRADICTION", 450)
\* mutant: the style trigger weighs nothing by default
WEIGHT_STYLE_none(env) == _w(env, "SARCASM_WEIGHT_STYLE", 0)

WEIGHT_STYLE(env) == _w(env, "SARCASM_WEIGHT_STYLE", 350)
WEIGHT_POS_NEG_COMBO(env) == _w(env, "SARCASM_WEIGHT_POS_NEG_COMBO", 150)
WEIGHT_POS_BOOST(env) == _w(env, "SARCASM_WEIGHT_POS_BOOST", 180)
WEIGHT_ELONGATED(env) == _w(env, "SARCASM_WEIGHT_ELONGATED", 80)
WEIGHT_BORDERLINE(env) == _w(env, "SARCASM_WEIGHT_BORDERLINE", 30)

\* the parsed SARCASM_LOGISTIC_COEFFS: json is "dict" (coeffs by feature, whole numbers),
\* "list" (valid JSON that is no object), or "none" (unset, or json.loads failed)
NoCoeffs == [json |-> "none", coeffs |-> [k \in {} |-> 0]]

LOGISTIC_COEFFS(env) ==
    IF "SARCASM_LOGISTIC_COEFFS" \in DOMAIN env
          /\ env["SARCASM_LOGISTIC_COEFFS"].json # "invalid"
    THEN env["SARCASM_LOGISTIC_COEFFS"]
    ELSE NoCoeffs

\* `if LOGISTIC_COEFFS:` : None and the empty object are false
coeffs_truthy(c) ==
    \/ c.json = "list"
    \/ c.json = "dict" /\ DOMAIN c.coeffs # {}

BLEND_ALPHA(env) == _w(env, "SARCASM_BLEND_ALPHA", 500)

\* 1 / (1 + exp(-z)) in thousandths at z = 1 .. 6
sigmoid_table == <<731, 881, 953, 982, 993, 998>>

\* the logistic function of z (in thousandths), read at the whole number nearest to z
sigmoid(z) ==
    LET n == (z + 500) \div 1000
    IN  IF n = 0 THEN 500
        ELSE IF n > 6 THEN 999
        ELSE IF n < -6 THEN 1
        ELSE IF n > 0 THEN sigmoid_table[n]
        ELSE 1000 - sigmoid_table[-n]

RECURSIVE SumScores(_, _)
\* sum(e.score for e in emotions if e.label in labels)
SumScores(emotions, labels) ==
    IF Len(emotions) = 0 THEN 0
    ELSE (IF emotions[1].label \in labels THEN emotions[1].score ELSE 0)
         + SumScores(Tail(emotions), labels)

\* max(irony_raw, key=score): the first entry with the highest score
top_of(irony_raw) ==
    irony_raw[Min({i \in 1..Len(irony_raw) :
                    \A j \in 1..Len(irony_raw) : irony_raw[j].score <= irony_raw[i].score})]

\* one entry of sources: its text up to the number it formats, and that number
Source(tag, value) == [tag |-> tag, value |-> value]

AppendIf(s, cond, e) == IF cond THEN Append(s, e) ELSE s

\* min(1.0, x) and nothing else: a sum below 0 stays as it is
heuristic_score_of(base_prob) == IF base_prob > 1000 THEN 1000 ELSE base_prob

\* the blended score, or the heuristic score when blending is off or raised
blend(env, heuristic_score, logistic_prob) ==
    LET b == (BLEND_ALPHA(env) * heuristic_score
              + (1000 - BLEND_ALPHA(env)) * logistic_prob) \div 1000
    IN  IF b > 1000 THEN 1000 ELSE b

\* mutant: a score equal to the strict threshold is not yet sarcastic
final_label_above(env, sarcasm_score) ==
    IF sarcasm_score > STRICT_SARCASM_THRESHOLD(env) THEN "sarcastic"
    ELSE IF sarcasm_score >= POSSIBLE_SARCASM_THRESHOLD(env) THEN "possibly_sarcastic"
    ELSE "not_sarcastic"

\* lines 243-249
final_label_of(env, sarcasm_score) ==
    IF sarcasm_score >= STRICT_SARCASM_THRESHOLD(env) THEN "sarcastic"
    ELSE IF sarcasm_score >= POSSIBLE_SARCASM_THRESHOLD(env) THEN "possibly_sarcastic"
    ELSE "not_sarcastic"

\* mutant: the combo trigger fires next to the contradiction trigger
pos_neg_combo_additive(pos_hit, neg_count, contradiction) == pos_hit /\ neg_count >= 1

\* line 175: hyperbole with a negative event when the contradiction trigger did not fire
pos_neg_combo_of(pos_hit, neg_count, contradiction) ==
    pos_hit /\ neg_count >= 1 /\ ~contradiction

\* lines 146-151: the base features of a text
base_features(text) ==
    LET lower == str_lower(text)
    IN  [ neg_count     |-> count_negatives(lower),
          neg_hits      |-> list_negatives(lower),
          pos_boost     |-> extra_positive_boost(text),
          elongated     |-> ELONGATED(text),
          profanity_hit |-> \E w \in PROFANITY : Contains(lower, w),
          pos_hit       |-> regex_search(POS_EXAGG, lower) ]

\* aggregate_sarcasm(text, emotions) from the base features f of the text, with what the
\* irony pipeline returned for the text and what the intent model's generation decoded to
aggregate_sarcasm(env, f, emotions, irony_raw, decoded) ==
    LET neg_count == f.neg_count
        neg_hits == f.neg_hits
        pos_boost == f.pos_boost
        elongated == f.elongated
        profanity_hit == f.profanity_hit
        pos_emotion ==
            SumScores(emotions, {"joy", "love", "admiration", "excitement", "amusement"})
            + pos_boost
        neg_emotion ==
            SumScores(emotions, {"sadness", "disappointment", "annoyance", "anger",
                                 "grief", "fear"})
        top_irony == top_of(irony_raw)
        irony_label == Get(IRONY_LABEL_MAP, top_irony.label, "not_sarcastic")
        irony == irony_label = "sarcastic"
        t5 == t5_predict(decoded) = "sarcastic"
        pos_hit == f.pos_hit
        contradiction ==
            \/ pos_emotion >= 150 /\ neg_count >= 1
            \/ pos_emotion >= 100 /\ neg_count >= 2
        style_trigger ==
            \/ elongated /\ neg_count >= 1
            \/ profanity_hit /\ neg_count >= 1
            \/ pos_hit /\ neg_count >= 1
        pos_neg_combo == pos_neg_combo_of(pos_hit, neg_count, contradiction)
        s1 == AppendIf(<<>>, irony, Source("irony_model:", (top_irony.score + 5) \div 10))
        s2 == AppendIf(s1, t5, Source("t5_model", 0))
        s3 == AppendIf(s2, contradiction, Source("heuristic_contrast", 0))
        s4 == AppendIf(s3, style_trigger, Source("heuristic_style", 0))
        s5 == AppendIf(s4, pos_neg_combo, Source("heuristic_pos_neg_combo", 0))
        s6 == AppendIf(s5, elongated, Source("elongation", 0))
        s7 == AppendIf(s6, profanity_hit, Source("profanity", 0))
        s8 == AppendIf(s7, neg_hits # {}, Source("neg_hits:", Cardinality(neg_hits)))
        s9 == AppendIf(s8, pos_boost # 0, Source("pos_hyperbole", 0))
        provisional ==
            (IF irony
             THEN top_irony.score
                  + (IF top_irony.score < 550 THEN WEIGHT_IRONY_FLOOR(env) ELSE 0)
             ELSE 0)
            + (IF t5 THEN WEIGHT_T5(env) ELSE 0)
            + (IF contradiction THEN WEIGHT_CONTRADICTION(env) ELSE 0)
            + (IF style_trigger THEN WEIGHT_STYLE(env) ELSE 0)
            + (IF pos_neg_combo THEN WEIGHT_POS_NEG_COMBO(env) ELSE 0)
            + (IF pos_boost # 0 /\ ~contradiction /\ ~pos_neg_combo
               THEN WEIGHT_POS_BOOST(env) ELSE 0)
            + (IF elongated THEN WEIGHT_ELONGATED(env) ELSE 0)
        assist ==
            /\ irony /\ neg_count >= 1
            /\ provisional < STRICT_SARCASM_THRESHOLD(env)
            /\ STRICT_SARCASM_THRESHOLD(env) - provisional <= 60
        base_prob == provisional + (IF assist THEN WEIGHT_BORDERLINE(env) ELSE 0)
        s10 == AppendIf(s9, assist, Source("assist_borderline_irony", 0))
        heuristic_score == heuristic_score_of(base_prob)
        coeffs == LOGISTIC_COEFFS(env)
        flag(x) == IF x THEN 1000 ELSE 0
        logistic_features ==
            [ irony_score   |-> top_irony.score,
              t5_flag       |-> flag(t5),
              pos_emotion   |-> pos_emotion,
              neg_emotion   |-> neg_emotion,
              neg_count     |-> 1000 * neg_count,
              pos_boost     |-> pos_boost,
              elongated     |-> flag(elongated),
              profanity     |-> flag(profanity_hit),
              contradiction |-> flag(contradiction),
              style_trigger |-> flag(style_trigger),
              pos_neg_combo |-> flag(pos_neg_combo) ]
        used == DOMAIN logistic_features \cap DOMAIN coeffs.coeffs
        RECURSIVE dot(_)
        dot(ks) ==
            IF ks = {} THEN 0
            ELSE LET k == CHOOSE x \in ks : TRUE
                 IN  coeffs.coeffs[k] * logistic_features[k] + dot(ks \ {k})
        z == 1000 * Get(coeffs.coeffs, "bias", 0) + dot(used)
        \* LOGISTIC_COEFFS.get raises on a value that is no object: the except branch
        blended == coeffs_truthy(coeffs) /\ coeffs.json = "dict"
        logistic_prob == sigmoid(z)
        sarcasm_score ==
            IF blended THEN blend(env, heuristic_score, logistic_prob) ELSE heuristic_score
        s11 == AppendIf(s10, blended, Source("logistic_blend", 0))
        s12 == AppendIf(s11, s11 = <<>>, Source("none_triggered", 0))
        \* the debug entry is "features:" and a JSON dump of the features
        s13 == AppendIf(s12, ENABLE_SARCASM_DEBUG(env), Source("features:", 0))
    IN  [ final_label   |-> final_label_of(env, sarcasm_score),
          sarcasm_score |-> sarcasm_score,
          sources       |-> s13,
          feature_dict  |->
            [ neg_count       |-> neg_count,
              pos_boost       |-> pos_boost,
              irony_label     |-> irony_label,
              t5_label        |-> t5_predict(decoded),
              contradiction   |-> contradiction,
              style_trigger   |-> style_trigger,
              pos_neg_combo   |-> pos_neg_combo,
              heuristic_score |-> heuristic_score,
              blended         |-> blended ] ]

\* s.startswith("features:")
startswith_features(s) ==
    s.tag \in {"features:", "features:enable_env_SARCASM_DEBUG_for_full_detail"}

\* the environments the service is started with: nothing set, debug output on, weights
\* and thresholds overridden (one by a text that is no number), calibration
\* coefficients that are an object, an empty object, a list, or no JSON
Number(v) == [ok |-> TRUE, value |-> v]

Coeffs(kind, c) == [json |-> kind, coeffs |-> c]

DefaultEnv == [k \in {} |-> 0]

Environments ==
    { DefaultEnv,
      [SARCASM_DEBUG |-> <<"t","r","u","e">>],
      [SARCASM_DEBUG |-> <<"O","N">>],
      [SARCASM_WEIGHT_T5 |-> Number(-600)],
      [SARCASM_WEIGHT_T5 |-> [ok |-> FALSE, value |-> 0]],
      [SARCASM_WEIGHT_STYLE |-> Number(900)],
      [SARCASM_STRICT_THRESHOLD |-> Number(550), SARCASM_POSSIBLE_THRESHOLD |-> Number(250)],
      [SARCASM_STRICT_THRESHOLD |-> Number(280), SARCASM_POSSIBLE_THRESHOLD |-> Number(500)],
      [SARCASM_LOGISTIC_COEFFS |-> Coeffs("dict", [bias |-> -2, t5_flag |-> 3])],
      [SARCASM_LOGISTIC_COEFFS |-> Coeffs("dict", [bias |-> -2, t5_flag |-> 3]),
       SARCASM_DEBUG |-> <<"t","r","u","e">>],
      [SARCASM_LOGISTIC_COEFFS |-> Coeffs("dict", [bias |-> 1, irony_score |-> 2]),
       SARCASM_BLEND_ALPHA |-> Number(1500)],
      [SARCASM_LOGISTIC_COEFFS |-> Coeffs("dict", [k \in {} |-> 0])],
      [SARCASM_LOGISTIC_COEFFS |-> Coeffs("list", [k \in {} |-> 0])],
      [SARCASM_LOGISTIC_COEFFS |-> Coeffs("invalid", [k \in {} |-> 0])] }

\* what the emotion classifier returns for the text
SarcasmEmotionLists ==
    { <<>>,
      <<[label |-> "joy", score |-> 900]>>,
      <<[label |-> "joy", score |-> 100]>>,
      <<[label |-> "sadness", score |-> 800], [label |-> "joy", score |-> 120]>> }

\* what the irony pipeline returns for the text
IronyOutputs ==
    { <<[label |-> "LABEL_1", score |-> 900]>>,
      <<[label |-> "LABEL_1", score |-> 500]>>,
      <<[label |-> "LABEL_1", score |-> 440]>>,
      <<[label |-> "LABEL_1", score |-> 300]>>,
      <<[label |-> "LABEL_0", score |-> 950]>>,
      <<[label |-> "LABEL_0", score |-> 600], [label |-> "LABEL_1", score |-> 400]>>,
      <<[label |-> "irony", score |-> 800]>> }

\* the debug query parameter: absent, or its value
DebugParams == {<<>>, <<"1">>, <<"0">>}

NoRequest == [text |-> <<>>, emotions |-> <<>>, irony_raw |-> <<>>, decoded |-> <<>>,
              debug |-> <<>>]

NoResponse == [status |-> 0, sarcasm |-> "", sarcasm_score |-> 0, sarcasm_sources |-> <<>>]

\* the base features of every request text
BaseFeatures == [text \in SarcasmTexts |-> base_features(text)]

AInit ==
    /\ a_env \in Environments
    /\ a_req = NoRequest
    /\ a_resp = NoResponse

\* POST /predict_all, every model call returning (lines 300-329)
PredictAll ==
    /\ a_resp = NoResponse
    /\ \E text \in SarcasmTexts, emotions \in SarcasmEmotionLists,
          irony_raw \in IronyOutputs, decoded \in T5Outputs, debug \in DebugParams :
        LET v == aggregate_sarcasm(a_env, BaseFeatures[text], emotions, irony_raw, decoded)
            forced ==
                /\ debug \in { <<"1">>, <<"t","r","u","e">>, <<"y","e","s">>, <<"o","n">> }
                /\ ~ \E k \in 1..Len(v.sources) : startswith_features(v.sources[k])
            sources ==
                AppendIf(v.sources, forced,
                         Source("features:enable_env_SARCASM_DEBUG_for_full_detail", 0))
        IN  /\ a_req' = [text |-> text, emotions |-> emotions, irony_raw |-> irony_raw,
                         decoded |-> decoded, debug |-> debug]
            /\ a_resp' = [status |-> 200, sarcasm |-> v.final_label,
                          sarcasm_score |-> v.sarcasm_score, sarcasm_sources |-> sources]
    /\ UNCHANGED a_env
    /\ UNCHANGED <<gvars, svars, xvars>>

\* POST /predict_all, a model call raising: the handler answers 500 (lines 330-331)
PredictAllFails ==
    /\ a_resp = NoResponse
    /\ \E text \in SarcasmTexts, debug \in DebugParams :
        a_req' = [text |-> text, emotions |-> <<>>, irony_raw |-> <<>>, decoded |-> <<>>,
                  debug |-> debug]
    /\ a_resp' = [NoResponse EXCEPT !.status = 500]
    /\ UNCHANGED a_env
    /\ UNCHANGED <<gvars, svars, xvars>>

\* the client has the response; the next request can come
PredictAllDone ==
    /\ a_resp # NoResponse
    /\ a_req' = NoRequest
    /\ a_resp' = NoResponse
    /\ UNCHANGED a_env
    /\ UNCHANGED <<gvars, svars, xvars>>

NextSarcasm ==
    \/ PredictAll
    \/ PredictAllFails
    \/ PredictAllDone

\* ------------------------------------------------------------ update_memory and update_summary

\* gemini_client.py lines 625-630: the keyword sets
WORK_WORDS ==
    { <<"w","o","r","k">>,
      <<"j","o","b">>,
      <<"b","o","s","s">>,
      <<"s","h","i","f","t">>,
      <<"o","v","e","r","t","i","m","e">> }

\* line 626
SCHOOL_WORDS ==
    { <<"s","c","h","o","o","l">>,
      <<"s","t","u","d","y">>,
      <<"e","x","a","m">>,
      <<"g","r","a","d","e">> }

\* line 627
FAMILY_WORDS ==
    { <<"f","a","m","i","l","y">>,
      <<"p","a","r","e","n","t">>,
      <<"s","i","b","l","i","n","g">>,
      <<"r","e","l","a","t","i","o","n","s","h","i","p">> }

\* line 628
FAMILY_MOTIVATION ==
    { <<"f","a","m","i","l","y">>,
      <<"k","i","d","s">>,
      <<"c","h","i","l","d","r","e","n">> }

\* line 629
FEELING_OVERWHELMED ==
    { <<"e","x","h","a","u","s","t","e","d">>,
      <<"d","r","a","i","n","e","d">>,
      <<"o","v","e","r","w","h","e","l","m","e","d">> }

\* line 630
FEELING_BETTER ==
    { <<"b","e","t","t","e","r">>,
      <<"h","e","l","p","i","n","g">>,
      <<"i","m","p","r","o","v","i","n","g">> }

tuition == <<"t","u","i","t","i","o","n">>

sister == <<"s","i","s","t","e","r">>

sibling == <<"s","i","b","l","i","n","g">>

\* lines 631-640: key and value of each entry, in the order of the dict
COPING_MAP ==
    << [key |-> <<"b","r","e","a","t","h","i","n","g">>, val |-> "breathing exercises"],
       [key |-> <<"b","a","t","h">>, val |-> "taking baths"],
       [key |-> <<"m","u","s","i","c">>, val |-> "listening to music"],
       [key |-> <<"w","a","l","k">>, val |-> "going for walks"],
       [key |-> <<"t","e","a">>, val |-> "having tea"],
       [key |-> <<"r","e","a","d">>, val |-> "reading"],
       [key |-> <<"m","e","d","i","t","a","t","i","o","n">>, val |-> "meditation"],
       [key |-> <<"e","x","e","r","c","i","s","e">>, val |-> "exercise"] >>

\* the user messages update_memory is followed on
MemoryTexts ==
    { <<"g","o","o","d"," ","m","o","r","n","i","n","g">>,
      <<"m","y"," ","b","o","s","s"," ","i","s"," ","o","n"," ","m","y"," ","c","a","s","e">>,
      <<"H","o","m","e","w","o","r","k"," ","i","s"," ","p","i","l","i","n","g"," ","u","p">>,
      <<"e","x","a","m"," ","w","e","e","k",","," ","I"," ","S","T","U","D","Y"," ","a"," ","l","o","t">>,
      <<"I"," ","p","a","y"," ","t","u","i","t","i","o","n"," ","f","o","r"," ","m","y"," ","s","i","s","t","e","r">>,
      <<"m","y"," ","k","i","d","s"," ","k","e","e","p"," ","m","e"," ","g","o","i","n","g">>,
      <<"s","o"," ","d","r","a","i","n","e","d","."," ","t","e","a"," ","a","n","d"," ","m","u","s","i","c"," ","h","e","l","p">>,
      <<"f","e","e","l","i","n","g"," ","b","e","t","t","e","r"," ","a","f","t","e","r"," ","a"," ","w","a","l","k">>,
      <<"I"," ","r","e","a","d",","," ","t","o","o","k"," ","a"," ","b","a","t","h",","," ","d","i","d"," ","b","r","e","a","t","h","i","n","g">>,
      <<"m","e","d","i","t","a","t","i","o","n"," ","a","n","d"," ","e","x","e","r","c","i","s","e">>,
      <<"I"," ","a","l","r","e","a","d","y"," ","a","t","e"," ","b","r","e","a","d">> }

\* the reply the conversation gets; update_memory is handed it and does not read it
MemoryReply ==
    <<"t","r","y"," ","a"," ","w","a","l","k"," ","a","f","t","e","r"," ","w","o","r","k">>

\* \w of the re module, for ASCII
IsWordChar(c) ==
    \/ c \in DOMAIN ToLower
    \/ \E u \in DOMAIN ToLower : ToLower[u] = c
    \/ c \in {"0", "1", "2", "3", "4", "5", "6", "7", "8", "9", "_"}

\* line 666: re.search(r'\b' + re.escape(key) + r'\b', text) for a key of word characters
word_search(key, text) ==
    \E i \in 1..(Len(text) - Len(key) + 1) :
        /\ SubSeq(text, i, i + Len(key) - 1) = key
        /\ i = 1 \/ ~IsWordChar(text[i - 1])
        /\ i + Len(key) > Len(text) \/ ~IsWordChar(text[i + Len(key)])

\* what the checks of update_memory find in one text: the keywords it holds as
\* substrings and the coping keys it holds as words
hits(text) ==
    [sub |-> {w \in WORK_WORDS \cup SCHOOL_WORDS \cup FAMILY_WORDS \cup FAMILY_MOTIVATION
                    \cup FEELING_OVERWHELMED \cup FEELING_BETTER
                    \cup {tuition, sister, sibling} : Contains(str_lower(text), w)},
     keys |-> {k \in DOMAIN COPING_MAP : word_search(COPING_MAP[k].key, str_lower(text))}]

Hits == [text \in MemoryTexts |-> hits(text)]

\* text_all is kept as the list of the texts that line 647 joins with a blank: no
\* keyword holds a blank and a blank is a word boundary, so a keyword occurs in the
\* joined text exactly when it occurs in one of the texts.
\* `w in text_all`
in_text(w, text_all) == \E i \in DOMAIN text_all : w \in Hits[text_all[i]].sub

\* re.search(r'\b' + key + r'\b', text_all) for the k-th key of COPING_MAP
key_in_text(k, text_all) == \E i \in DOMAIN text_all : k \in Hits[text_all[i]].keys

\* any(w in text_all for w in words)
any_in(words, text_all) == \E w \in words : in_text(w, text_all)

\* a memory dict: a missing key, None and "" all read as "" (they are all falsy), and
\* the coping list is read as the set the code makes of it
Memory(stressor, motivation, coping, trajectory) ==
    [stressor |-> stressor, motivation |-> motivation, coping |-> coping,
     trajectory |-> trajectory]

\* line 644: existing or {}
NoMemory == Memory("", "", {}, "")

\* line 668: list(coping_set)[:8].  The order of a set of strings is not fixed (hashes
\* are salted per process), so any 8 of more than 8 entries can be the ones kept.
coping_cap == 8

first_of_set(coping_set) ==
    IF Cardinality(coping_set) <= coping_cap THEN {coping_set}
    ELSE {c \in SUBSET coping_set : Cardinality(c) = coping_cap}

\* line 645: history[-8:]
last_items(history, n) ==
    IF Len(history) <= n THEN history ELSE SubSeq(history, Len(history) - n + 1, Len(history))

\* lines 645-647
text_all_of(history, latest_user) ==
    LET users == SelectSeq(last_items(history, 8),
                           LAMBDA item : item.text # <<>> /\ item.role = "user")
    IN  [i \in 1..Len(users) |-> users[i].text] \o <<latest_user>>

\* mutant: the stressor follows the latest texts also when it is set
stressor_of_latest(existing, text_all) ==
    IF any_in(WORK_WORDS, text_all) THEN "work stress"
    ELSE IF any_in(SCHOOL_WORDS, text_all) THEN "school stress"
    ELSE IF any_in(FAMILY_WORDS, text_all) THEN "family stuff"
    ELSE existing.stressor

\* lines 649-655
stressor_of(existing, text_all) ==
    IF existing.stressor # "" THEN existing.stressor
    ELSE IF any_in(WORK_WORDS, text_all) THEN "work stress"
    ELSE IF any_in(SCHOOL_WORDS, text_all) THEN "school stress"
    ELSE IF any_in(FAMILY_WORDS, text_all) THEN "family stuff"
    ELSE existing.stressor

\* lines 657-661
motivation_of(existing, text_all) ==
    IF existing.motivation # "" THEN existing.motivation
    ELSE IF in_text(tuition, text_all)
            /\ (in_text(sister, text_all) \/ in_text(sibling, text_all))
    THEN "helping family with school"
    ELSE IF any_in(FAMILY_MOTIVATION, text_all) THEN "looking out for family"
    ELSE existing.motivation

\* mutant: the list is cut before the new entries are added
coping_of_cut_first(existing, text_all) ==
    {c \cup {COPING_MAP[k].val : k \in {k \in DOMAIN COPING_MAP :
                                         key_in_text(k, text_all)}} :
        c \in first_of_set(existing.coping)}

\* lines 663-668: the possible values of existing["coping"]
coping_of(existing, text_all) ==
    first_of_set(existing.coping \cup
                 {COPING_MAP[k].val : k \in {k \in DOMAIN COPING_MAP :
                                             key_in_text(k, text_all)}})

\* lines 670-674
trajectory_of(existing, text_all) ==
    IF existing.trajectory # "" THEN existing.trajectory
    ELSE IF any_in(FEELING_OVERWHELMED, text_all) THEN "feeling drained and overwhelmed"
    ELSE IF any_in(FEELING_BETTER, text_all) THEN "starting to feel better"
    ELSE existing.trajectory

\* lines 643-676: the memories the call can return.  It calls no capability: the texts of
\* the user are its only evidence.
update_memory(existing, history, latest_user, latest_bot) ==
    LET text_all == text_all_of(history, latest_user)
    IN  {Memory(stressor_of(existing, text_all), motivation_of(existing, text_all), c,
                trajectory_of(existing, text_all)) :
            c \in coping_of(existing, text_all)}

\* the memories a conversation starts from: none, some fields filled by earlier passes,
\* values of another origin, and a coping list of 9 entries
StartMemories ==
    { NoMemory,
      Memory("school stress", "", {"reading"}, ""),
      Memory("money worries", "looking out for family", {"journaling", "yoga"},
             "starting to feel better"),
      Memory("work stress", "", {"journaling", "yoga", "reading", "having tea", "exercise",
                                 "meditation", "taking baths", "breathing exercises",
                                 "listening to music"}, "") }

\* what the generation capability extracts from an exchange when it is asked to
NoExtraction == NoMemory

Extractions ==
    { NoExtraction,
      Memory("health scare", "", {"journaling"}, ""),
      Memory("", "finishing the degree", {}, "slowly recovering") }

MaxExchanges == 3

Exchange(latest_user, latest_bot) ==
    <<[role |-> "user", text |-> latest_user], [role |-> "bot", text |-> latest_bot]>>

\* views.py lines 242-249: the memory of the session after one more exchange
UpdateMemory ==
    /\ Len(m_history) < 2 * MaxExchanges
    /\ \E latest_user \in MemoryTexts, extraction \in Extractions :
        LET history == m_history \o Exchange(latest_user, MemoryReply)
        IN  /\ m_memory' \in update_memory(m_memory, history, latest_user, MemoryReply)
            /\ m_history' = history
            /\ m_extract' = extraction
    /\ UNCHANGED <<m_summary, m_result>>
    /\ UNCHANGED <<gvars, svars, avars, evars, cvars, ovars, tvars>>


\* the number of characters of each token of the summaries
token_len ==
    ("They" :> 4) @@ ("I" :> 1) @@ ("feel" :> 4) @@ ("tired." :> 6) @@ ("Chat" :> 4) @@
    ("is" :> 2) @@ ("ongoing" :> 7) @@ ("and" :> 3) @@ ("supportive." :> 11) @@
    (" " :> 1) @@ ("\n" :> 1)

RECURSIVE SumLen(_, _)
SumLen(text, toks) ==
    IF toks = {} THEN 0
    ELSE LET tok == CHOOSE t \in toks : TRUE
         IN  token_len[tok] * Cardinality({i \in DOMAIN text : text[i] = tok})
                + SumLen(text, toks \ {tok})

\* len(text)
str_len(text) == SumLen(text, {text[i] : i \in DOMAIN text})

RECURSIVE Repeat(_, _)
Repeat(text, n) == IF n = 0 THEN <<>> ELSE text \o Repeat(text, n - 1)

\* line 621
default_summary ==
    <<"Chat", " ", "is", " ", "ongoing", " ", "and", " ", "supportive.">>

short_summary == <<"They", " ", "feel", " ", "tired.">>

\* 48 sentences with one space between them: 800 characters
full_summary ==
    Repeat(<<"They", " ", "feel", " ", "tired.", " ">>, 43)
        \o Repeat(<<"I", " ", "feel", " ", "tired.", " ">>, 4)
        \o <<"I", " ", "feel", " ", "tired.">>

\* 60 sentences, more than 1000 characters
long_summary == Repeat(<<"They", " ", "feel", " ", "tired.", " ">>, 60)

Generated(text) == [kind |-> "text", text |-> text]

\* what model.generate_content(prompt) of line 617 can do: raise, or return a text of
\* any length (the call carries no generation_config)
SummaryResults ==
    { [kind |-> "error", text |-> <<>>],
      Generated(<<>>),
      Generated(<<" ">>),
      Generated(short_summary \o <<"\n">>),
      Generated(short_summary \o <<" ">> \o default_summary),
      Generated(full_summary),
      Generated(long_summary) }

\* mutant: a failed call with no summary so far leaves none
update_summary_text_blank(existing_summary, result) ==
    IF result.kind = "error"
    THEN add_breaks(existing_summary)
    ELSE add_breaks(IF result.text # <<>> THEN tok_strip(result.text)
                    ELSE existing_summary)

\* lines 616-621 of update_summary, given what the generation call does
update_summary_text(existing_summary, result) ==
    IF result.kind = "error"
    THEN add_breaks(IF existing_summary # <<>> THEN existing_summary ELSE default_summary)
    ELSE add_breaks(IF result.text # <<>> THEN tok_strip(result.text)
                    ELSE existing_summary)

\* the summaries a conversation starts from
StartSummaries == {<<>>, short_summary}

\* the summaries a conversation can have: add_breaks leaves its own results as they are
Summaries ==
    StartSummaries \cup {update_summary_text(existing_summary, result) :
                            existing_summary \in StartSummaries, result \in SummaryResults}

\* update_summary_text for each of them
summary_table ==
    [existing_summary \in Summaries |->
        [result \in SummaryResults |-> update_summary_text(existing_summary, result)]]

\* views.py lines 233-240: the summary of the session after one more exchange
UpdateSummary ==
    /\ Len(m_history) < 2 * MaxExchanges
    /\ \E latest_user \in MemoryTexts, result \in SummaryResults :
        /\ m_summary' = summary_table[m_summary][result]
        /\ m_result' = result
        /\ m_history' = m_history \o Exchange(latest_user, MemoryReply)
    /\ UNCHANGED <<m_memory, m_extract>>
    /\ UNCHANGED <<gvars, svars, avars, evars, cvars, ovars, tvars>>

\* ------------------------------------------------------------ api_chat, line by line

\* the slots in which requests of the followed browser are served at the same time
\* (threads or processes of the server)
Slots == {1, 2}

MaxSubmitted == 3

\* a request: where it is in api_chat, its message number and consent field, the
\* browser session as it loaded it (temp_chat_history and current_chat_session_id, with
\* what it changed since, and whether it changed any of it), the consent flag of its
\* preferences object and its session
Request(pc, k, consent_given, history, cur, modified, consent, sid) ==
    [pc |-> pc, k |-> k, consent_given |-> consent_given, history |-> history,
     cur |-> cur, modified |-> modified, consent |-> consent, sid |-> sid]

NoRequestHere == Request("idle", 0, <<>>, <<>>, <<>>, FALSE, FALSE, 0)

CIdle ==
    /\ c_req = [r \in Slots |-> NoRequestHere]
    /\ c_msgs = 0
    /\ c_done = {}

\* lines 54-67: the request arrives, request.user is resolved (which loads the browser
\* session), the rate-limit entry is read and the request passes
CheckRate(r) ==
    /\ c_req[r].pc = "idle"
    /\ c_msgs < MaxSubmitted
    /\ ~rate_limited(client)
    /\ \E consent_given \in ConsentInputs :
        c_req' = [c_req EXCEPT ![r] = Request("checked", c_msgs + 1, consent_given,
                                              buffer[client], current[client], FALSE,
                                              FALSE, 0)]
    /\ c_msgs' = c_msgs + 1
    /\ UNCHANGED <<c_done, svars>>
    /\ UNCHANGED <<gvars, avars, mvars, evars, ovars, tvars>>

\* line 70
SetRate(r) ==
    /\ c_req[r].pc = "checked"
    /\ rate' = [rate EXCEPT ![client] = Some(0)]
    /\ c_req' = [c_req EXCEPT ![r].pc = "rated"]
    /\ UNCHANGED <<prefs_db, prefs_cache, buffer, current, sessions, next_sid, sent,
                   list_cache, resp, client>>
    /\ UNCHANGED <<c_msgs, c_done>>
    /\ UNCHANGED <<gvars, avars, mvars, evars, ovars, tvars>>

\* lines 72-103: the preferences are looked up and the consent field is applied
Prepare(r) ==
    /\ c_req[r].pc = "rated"
    /\ LET p == chat_preferences(client, c_req[r].consent_given, <<>>)
       IN  /\ prefs_db' = p.db
           /\ prefs_cache' = p.cache
           /\ c_req' = [c_req EXCEPT ![r].pc = "prepared",
                                     ![r].consent = _check_consent(p.prefs)]
    /\ UNCHANGED <<rate, buffer, current, sessions, next_sid, sent, list_cache, resp, client>>
    /\ UNCHANGED <<c_msgs, c_done>>
    /\ UNCHANGED <<gvars, avars, mvars, evars, ovars, tvars>>

\* lines 105-110: the scoring service has answered (it is given up to 30 seconds)
Score(r) ==
    /\ c_req[r].pc = "prepared"
    /\ c_req' = [c_req EXCEPT ![r].pc = "scored"]
    /\ UNCHANGED <<c_msgs, c_done, svars>>
    /\ UNCHANGED <<gvars, avars, mvars, evars, ovars, tvars>>

\* lines 105-110 raise: the answer is a 500 and the browser session is not saved
ScoreFails(r) ==
    /\ c_req[r].pc = "prepared"
    /\ c_req' = [c_req EXCEPT ![r] = NoRequestHere]
    /\ UNCHANGED <<c_msgs, c_done, svars>>
    /\ UNCHANGED <<gvars, avars, mvars, evars, ovars, tvars>>

\* lines 115-153 and the session save of the response: the exchange is appended to the
\* history the request loaded, and the browser session is written back as a whole
FinishEphemeral(r) ==
    /\ c_req[r].pc = "scored"
    /\ ~c_req[r].consent
    /\ buffer' = [buffer EXCEPT ![client] =
                    Append(buffer_with_user(c_req[r].history, Turn("user", client, c_req[r].k)),
                           Turn("bot", client, c_req[r].k))]
    /\ current' = [current EXCEPT ![client] = c_req[r].cur]
    /\ c_done' = c_done \cup {c_req[r].k}
    /\ c_req' = [c_req EXCEPT ![r] = NoRequestHere]
    /\ UNCHANGED <<rate, prefs_db, prefs_cache, sessions, next_sid, sent, list_cache, resp,
                   client>>
    /\ UNCHANGED c_msgs
    /\ UNCHANGED <<gvars, avars, mvars, evars, ovars, tvars>>

\* lines 155-174: the session of the request is found or created and the history the
\* request loaded is copied into it and committed
Migrate(r) ==
    /\ c_req[r].pc = "scored"
    /\ c_req[r].consent
    /\ LET s == session_of(client, c_req[r].cur, sessions, next_sid)
       IN  /\ sessions' = [s.sessions EXCEPT ![s.sid] = migrate(@, c_req[r].history)]
           /\ next_sid' = s.next_sid
           /\ c_req' = [c_req EXCEPT
                        ![r].pc = "migrated", ![r].sid = s.sid,
                        ![r].cur = Some(s.sid), ![r].history = <<>>,
                        ![r].modified = \/ c_req[r].history # <<>>
                                        \/ c_req[r].cur # Some(s.sid)]
    /\ UNCHANGED <<rate, prefs_db, prefs_cache, buffer, current, sent, list_cache, resp,
                   client>>
    /\ UNCHANGED <<c_msgs, c_done>>
    /\ UNCHANGED <<gvars, avars, mvars, evars, ovars, tvars>>

\* lines 176-261 and the session save of the response: the reply is generated, the
\* exchange is committed and the browser session, if the request changed it, is written
\* back as a whole
Persist(r) ==
    /\ c_req[r].pc = "migrated"
    /\ sessions' = [sessions EXCEPT ![c_req[r].sid] =
                      persist_exchange(@, client, c_req[r].k, TRUE)]
    /\ buffer' = IF c_req[r].modified
                 THEN [buffer EXCEPT ![client] = c_req[r].history]
                 ELSE buffer
    /\ current' = IF c_req[r].modified
                  THEN [current EXCEPT ![client] = c_req[r].cur]
                  ELSE current
    /\ list_cache' = [list_cache EXCEPT ![Ident(client)] = <<>>]
    /\ c_req' = [c_req EXCEPT ![r] = NoRequestHere]
    /\ UNCHANGED <<rate, prefs_db, prefs_cache, next_sid, sent, resp, client>>
    /\ UNCHANGED <<c_msgs, c_done>>
    /\ UNCHANGED <<gvars, avars, mvars, evars, ovars, tvars>>

\* ------------------------------------------------------------ api_chat, message by message

MaxTurns == 9

\* generate_reply's calls of the generation capability for a message: the classification
\* unless assess_response_type returns before it, then the reply generation
generation_calls(user_text, emotions) ==
    (IF assess_before_call(user_text, emotions).type = NoText
     THEN <<"classification">> ELSE <<>>) \o <<"reply_generation">>

GenerationCalls == {generation_calls(t, e) : t \in UserTexts, e \in EmotionLists}

\* mutant: the summary is regenerated on both branches
api_chat_calls_both(consent, generation, due) ==
    <<"emotion_scoring">> \o generation \o (IF due THEN <<"summary">> ELSE <<>>)

\* views.py lines 105-250: the external calls of one accepted message: the scoring
\* service (106), generate_reply (126 or 195) and, on the consent branch when the summary
\* is due, update_summary (233); update_memory calls nothing
api_chat_calls(consent, generation, due) ==
    <<"emotion_scoring">> \o generation \o (IF consent /\ due THEN <<"summary">> ELSE <<>>)

\* no conversation is followed
NoSession == [owner |-> "", messages |-> <<>>, summary |-> <<>>, memory |-> <<>>]

TIdle ==
    /\ t_session = NoSession
    /\ t_calls = <<>>
    /\ t_consent = FALSE

\* lines 105-110 raise: the scoring call was issued and nothing else
TurnScoringFails ==
    /\ t_calls' = <<"emotion_scoring">>
    /\ t_consent' \in BOOLEAN
    /\ UNCHANGED t_session
    /\ UNCHANGED <<gvars, svars, avars, mvars, evars, cvars, ovars>>

\* lines 115-153: a message without consent
TurnEphemeral ==
    /\ \E generation \in GenerationCalls :
        t_calls' = api_chat_calls(FALSE, generation, summary_due(t_session.messages))
    /\ t_consent' = FALSE
    /\ UNCHANGED t_session
    /\ UNCHANGED <<gvars, svars, avars, mvars, evars, cvars, ovars>>

\* lines 155-250: a message with consent is stored with its reply, summary and memory
TurnDurable ==
    /\ user_msg_count(t_session.messages) < MaxTurns
    /\ \E generation \in GenerationCalls, ok \in BOOLEAN :
        LET k == user_msg_count(t_session.messages) + 1
            after == persist_exchange(t_session, client, k, ok)
        IN  /\ t_session' = after
            /\ t_calls' = api_chat_calls(TRUE, generation, summary_due(after.messages))
    /\ t_consent' = TRUE
    /\ UNCHANGED <<gvars, svars, avars, mvars, evars, cvars, ovars>>

\* no other browser session is followed
OIdle == o_deleted = {}

\* the memory and the summary at rest, for the runs that do not follow them
MIdle ==
    /\ m_memory = NoMemory
    /\ m_summary = <<>>
    /\ m_history = <<>>
    /\ m_extract = NoExtraction
    /\ m_result = NoAnswer

\* ------------------------------------------------------------ security.py and Message

\* a str as the encryption sees it: its characters, and for a Fernet token the keys it
\* was encrypted with, innermost first, around the characters of the innermost plaintext
Str(chars, layers) == [chars |-> chars, layers |-> layers]

\* `not value`
is_empty(value) == value.chars = <<>> /\ value.layers = <<>>

\* the environment: ENCRYPTION_KEY (<<>> when unset) and the cryptography package
EncryptionEnv(key, installed) == [key |-> key, installed |-> installed]

\* the keys Fernet() accepts: 32 url-safe base64-encoded bytes
ValidKeys == {"K1", "K2"}

\* security.py lines 13-25: the Fernet object, <<>> for None
_init_fernet(env) ==
    IF env.key = <<>> \/ env.key = <<"">> \/ ~env.installed THEN <<>>
    ELSE IF env.key[1] \in ValidKeys THEN env.key
    ELSE <<>>

\* f.encrypt(...): a token of the key around the text
fernet_encrypt(f, value) == Str(value.chars, Append(value.layers, f[1]))

\* f.decrypt(...) succeeds on a token of the same key
fernet_decrypts(f, value) == value.layers # <<>> /\ value.layers[Len(value.layers)] = f[1]

fernet_decrypt(f, value) == Str(value.chars, SubSeq(value.layers, 1, Len(value.layers) - 1))

\* value.startswith('gAAAA'): every Fernet token does
startswith_gAAAA(value) ==
    \/ value.layers # <<>>
    \/ Len(value.chars) >= 5 /\ SubSeq(value.chars, 1, 5) = <<"g", "A", "A", "A", "A">>

\* security.py lines 28-32
encrypt_str(env, plaintext) ==
    LET f == _init_fernet(env)
    IN  IF f = <<>> \/ is_empty(plaintext) THEN plaintext
        ELSE fernet_encrypt(f, plaintext)

\* security.py lines 35-44
decrypt_str(env, token) ==
    LET f == _init_fernet(env)
    IN  IF f = <<>> \/ is_empty(token) THEN token
        ELSE IF fernet_decrypts(f, token) THEN fernet_decrypt(f, token)
        ELSE token

\* security.py lines 47-58
is_encrypted_str(env, value) ==
    LET f == _init_fernet(env)
    IN  IF f = <<>> \/ is_empty(value) THEN FALSE
        ELSE IF ~startswith_gAAAA(value) THEN FALSE
        ELSE fernet_decrypts(f, value)

\* mutant: save encrypts whatever it is given
save_text_always(env, text) == encrypt_str(env, text)

\* models.py lines 83-87: Message.text as save() stores it
save_text(env, text) ==
    IF ~is_empty(text) /\ ~is_encrypted_str(env, text) THEN encrypt_str(env, text) ELSE text

\* the environments the server can run in: no key, an empty key, a valid key, a value
\* that is no Fernet key, and a valid key without the package
EncryptionEnvs ==
    { EncryptionEnv(<<>>, TRUE),
      EncryptionEnv(<<"">>, TRUE),
      EncryptionEnv(<<"K1">>, TRUE),
      EncryptionEnv(<<"not a key">>, TRUE),
      EncryptionEnv(<<"gAAAA-not-a-key">>, TRUE),
      EncryptionEnv(<<"K1">>, FALSE) }

\* the texts of turns: plain texts, one of them with the prefix of a token, and texts
\* that are tokens themselves (of the server's key, twice of it, and of another key)
TurnTexts ==
    { Str(<<"h", "i">>, <<>>),
      Str(<<" ">>, <<>>),
      Str(<<"g", "A", "A", "A", "A">>, <<>>),
      Str(<<"g", "A", "A", "A", "A", "h", "i">>, <<>>),
      Str(<<"I", " ", "a", "m", " ", "s", "a", "d">>, <<>>),
      Str(<<"h", "i">>, <<"K1">>),
      Str(<<"h", "i">>, <<"K1", "K1">>),
      Str(<<"h", "i">>, <<"K2">>) }

MaxSaves == 2

\* the run has no Message object
EIdle ==
    /\ e_env = EncryptionEnv(<<>>, TRUE)
    /\ e_text = Str(<<>>, <<>>)
    /\ e_field = <<>>
    /\ e_row = <<>>
    /\ e_read = <<>>
    /\ e_saves = 0
    /\ e_pc = "none"

\* views.py lines 206-207, 214: Message(session=..., sender=..., text=text)
EInit ==
    /\ e_env \in EncryptionEnvs
    /\ e_text \in TurnTexts
    /\ e_field = Some(e_text)
    /\ e_row = <<>>
    /\ e_read = <<>>
    /\ e_saves = 0
    /\ e_pc = "new"

\* models.py lines 80-81, called at views.py lines 208, 215
SetPlaintext ==
    /\ e_pc = "new"
    /\ e_field' = Some(encrypt_str(e_env, e_text))
    /\ e_pc' = "set"
    /\ UNCHANGED <<e_env, e_text, e_row, e_read, e_saves>>
    /\ UNCHANGED <<gvars, svars, avars, mvars, cvars, ovars, tvars>>

\* models.py lines 83-87, called at views.py lines 209, 216 and whenever the object is
\* saved again
Save ==
    /\ e_pc \in {"set", "saved"}
    /\ e_saves < MaxSaves
    /\ e_field' = Some(save_text(e_env, e_field[1]))
    /\ e_row' = e_field'
    /\ e_saves' = e_saves + 1
    /\ e_pc' = "saved"
    /\ UNCHANGED <<e_env, e_text, e_read>>
    /\ UNCHANGED <<gvars, svars, avars, mvars, cvars, ovars, tvars>>

\* the row is loaded and models.py lines 76-78 are read
Plaintext ==
    /\ e_row # <<>>
    /\ e_read = <<>>
    /\ e_field' = e_row
    /\ e_read' = Some(decrypt_str(e_env, e_row[1]))
    /\ UNCHANGED <<e_env, e_text, e_row, e_saves, e_pc>>
    /\ UNCHANGED <<gvars, svars, avars, mvars, cvars, ovars, tvars>>

NextMessage ==
    \/ SetPlaintext
    \/ Save
    \/ Plaintext

\* one turn written and read back, in any of the environments
InitMessage ==
    /\ GInit /\ SInit /\ client = "anon" /\ sessions = <<>> /\ AInit /\ a_env = DefaultEnv
    /\ MIdle /\ CIdle /\ OIdle /\ TIdle
    /\ EInit

SpecMessage == InitMessage /\ [][NextMessage]_vars

\* the runs that follow none of them
XIdle == MIdle /\ EIdle /\ CIdle /\ OIdle /\ TIdle

\* api_chat in two slots, and time
InitConcurrent ==
    /\ GInit /\ SInit /\ AInit /\ a_env = DefaultEnv /\ sessions = <<>>
    /\ MIdle /\ EIdle /\ CIdle /\ OIdle /\ TIdle

NextConcurrent ==
    \/ \E r \in Slots : CheckRate(r)
    \/ \E r \in Slots : SetRate(r)
    \/ \E r \in Slots : Prepare(r)
    \/ \E r \in Slots : Score(r)
    \/ \E r \in Slots : ScoreFails(r)
    \/ \E r \in Slots : FinishEphemeral(r)
    \/ \E r \in Slots : Migrate(r)
    \/ \E r \in Slots : Persist(r)
    \/ Tick

SpecConcurrent == InitConcurrent /\ [][NextConcurrent]_vars

\* update_memory alone, from any of the starting memories
InitMemory ==
    /\ GInit /\ SInit /\ client = "anon" /\ sessions = <<>> /\ AInit /\ a_env = DefaultEnv
    /\ EIdle /\ CIdle /\ OIdle /\ TIdle
    /\ m_memory \in StartMemories
    /\ m_summary = <<>>
    /\ m_history = <<>>
    /\ m_extract = NoExtraction
    /\ m_result = NoAnswer

NextMemory == UpdateMemory

SpecMemory == InitMemory /\ [][NextMemory]_vars

\* update_summary alone, from any of the starting summaries
InitSummary ==
    /\ GInit /\ SInit /\ client = "anon" /\ sessions = <<>> /\ AInit /\ a_env = DefaultEnv
    /\ EIdle /\ CIdle /\ OIdle /\ TIdle
    /\ m_memory = NoMemory
    /\ m_summary \in StartSummaries
    /\ m_history = <<>>
    /\ m_extract = NoExtraction
    /\ m_result = NoAnswer

NextSummary == UpdateSummary

SpecSummary == InitSummary /\ [][NextSummary]_vars

\* a conversation message by message, from a new session
InitTurns ==
    /\ GInit /\ SInit /\ sessions = <<>> /\ AInit /\ a_env = DefaultEnv
    /\ MIdle /\ EIdle /\ CIdle /\ OIdle
    /\ t_session = new_session(client)
    /\ t_calls = <<>>
    /\ t_consent = FALSE

NextTurns ==
    \/ TurnScoringFails
    \/ TurnEphemeral
    \/ TurnDurable

SpecTurns == InitTurns /\ [][NextTurns]_vars

\* ------------------------------------------------------------ the specifications

\* the consent-gated store on its own: the database starts empty
Init == GInit /\ SInit /\ AInit /\ XIdle /\ a_env = DefaultEnv /\ sessions = <<>>

Next ==
    \/ ApiChat
    \/ Chat
    \/ ApiChatContext
    \/ ApiClearAnonymousChat
    \/ ApiNewChat
    \/ ApiConsent
    \/ Tick
    \/ CacheExpire
    \/ ResponseSent

Spec == Init /\ [][Next]_vars

\* the reply pipeline is followed for one requester; the store stays as it starts
InitReply == Init /\ client = "anon"

SpecReply == InitReply /\ [][NextReply]_vars

\* the sarcasm service alone, started with any of the environments
InitSarcasm == GInit /\ SInit /\ client = "anon" /\ AInit /\ XIdle

SpecSarcasm == InitSarcasm /\ [][NextSarcasm]_vars

\* the sessions of one identity next to those of another: the database holds a session
\* of the other identity, and the requests include those that list, read, switch and
\* delete sessions
InitSessions == GInit /\ SInit /\ AInit /\ XIdle /\ a_env = DefaultEnv /\ sessions # <<>>

NextSessions ==
    \/ ApiChat
    \/ Chat
    \/ ApiChatContext
    \/ ApiClearAnonymousChat
    \/ ApiNewChat
    \/ ApiConsent
    \/ ApiChatSessions
    \/ ApiChatSessionDetail
    \/ ApiSwitchSession
    \/ ApiDeleteSession
    \/ ApiCurrentSession
    \/ Tick
    \/ CacheExpire
    \/ ListCacheExpire
    \/ ResponseSent

SpecSessions == InitSessions /\ [][NextSessions]_vars

\* the same for an account with a second browser session that deletes sessions
InitDevices == InitSessions /\ is_authenticated(client)

NextDevices ==
    \/ ApiChat
    \/ \E b \in Browsers : ChatGet(b)
    \/ ApiNewChat
    \/ \E b \in Browsers, consent_given \in BOOLEAN : ApiConsentSet(b, consent_given)
    \/ ApiChatSessions
    \/ ApiSwitchSession
    \/ ApiDeleteSession
    \/ ApiDeleteSessionElsewhere
    \/ ApiCurrentSession
    \/ Tick
    \/ ListCacheExpire
    \/ ResponseSent

SpecDevices == InitDevices /\ [][NextDevices]_vars

\* ------------------------------------------------------------ claims on the pipeline

Categories ==
    {SituationCategory.immediate_danger, SituationCategory.grief, SituationCategory.panic,
     SituationCategory.high_distress, SituationCategory.normal}

Classified == g_pc \in {"classified", "reply_wait", "done"}

\* some marker equals, letter case aside, a stretch of the text
MentionsMarker(text) ==
    \E k \in 1..Len(explicit_crisis_markers) :
        \E i \in 1..(Len(text) - Len(explicit_crisis_markers[k]) + 1) :
            str_lower(SubSeq(text, i, i + Len(explicit_crisis_markers[k]) - 1))
                = explicit_crisis_markers[k]

\* C1: a message containing, in any letter case, a configured explicit marker is
\* classified immediate_danger, whatever the emotions and whatever the model would answer
C1_ExplicitMarkerIsDanger ==
    (Classified /\ g_type # SituationCategory.immediate_danger) => ~MentionsMarker(g_text)

\* C1 witness: a mixed-case marker next to a loss keyword, under high sadness
C1_Witness ==
    /\ g_pc = "classified"
    /\ g_text = <<"M","y"," ","d","o","g"," ","d","i","e","d",","," ","I"," ","W","a","n","t"," ","T","o"," ","D","i","e">>
    /\ Len(g_emotions) > 0
    /\ g_emotions[1] = [label |-> <<"s","a","d","n","e","s","s">>, score |-> 71]
    /\ g_type = SituationCategory.immediate_danger

\* C2: once assess_response_type has returned, the category is one of the five, for
\* every text, emotion list and outcome of the model call
C2_CategoryIsOneOfFive == Classified => g_type \in Categories

\* C2 witness: an answer without a category token and no emotions at all
C2_Witness ==
    /\ g_pc = "classified"
    /\ g_assess = [kind |-> "text", text |-> <<"I"," ","a","m"," ","n","o","t"," ","s","u","r","e">>]
    /\ g_emotions = <<>>
    /\ g_type = SituationCategory.normal

\* C3: the marker check precedes every model call, the reply call is issued with the
\* category fixed and no classification pending, and a marker hit issues no
\* classification call
C3_MarkerCheckBeforeCalls ==
    /\ \A i \in 1..Len(g_calls) :
        g_calls[i] \in {"classify_call", "reply_call"} =>
            \E j \in 1..(i - 1) : g_calls[j] = "marker_check"
    /\ \A i \in 1..Len(g_calls) :
        g_calls[i] = "reply_call" =>
            /\ g_type \in Categories
            /\ \A j \in 1..(i - 1) :
                g_calls[j] = "classify_call" =>
                    \E k \in (j + 1)..(i - 1) : g_calls[k] = "classify_return"
    /\ (\E i \in 1..Len(g_calls) : g_calls[i] = "classify_call") => ~MentionsMarker(g_text)

\* C3 witness: a marker hit whose reply call is in flight
C3_Witness ==
    /\ g_pc = "reply_wait"
    /\ MentionsMarker(g_text)
    /\ g_calls = <<"marker_check", "reply_call">>

\* C4: every reply to a message classified immediate_danger contains the crisis
\* resource list verbatim, whatever the generation call returned
C4_CrisisReplyHasResources ==
    (g_pc = "done" /\ g_type = SituationCategory.immediate_danger) =>
        Contains(g_reply, crisis_resources_text)

GenerationFailed ==
    \/ g_gen.kind \in {"error", "timeout", "blocked"}
    \/ g_gen.kind = "text" /\ \A i \in 1..Len(g_gen.text) : IsSpace(g_gen.text[i])

Words(text) == SelectSeq(text, LAMBDA tok : ~IsSpace(tok))

Hotlines ==
    {national_hotlines[k] : k \in 1..Len(national_hotlines)}
        \cup {regional_hotlines[k] : k \in 1..Len(regional_hotlines)} \cup {emergency}

\* C5: when the generation call of a crisis reply fails, times out or returns no text,
\* the reply is the crisis fallback, word for word, and holds every hotline entry
\* verbatim after add_breaks
C5_CrisisFallbackHasHotlines ==
    (g_pc = "done" /\ g_type = SituationCategory.immediate_danger /\ GenerationFailed) =>
        /\ Words(g_reply) = Words(fallback_msg)
        /\ \A h \in Hotlines : Contains(g_reply, h)
        /\ Contains(g_reply, crisis_resources_text)

\* C5 witness: a crisis reply whose generation call timed out
C5_Witness ==
    /\ g_pc = "done"
    /\ g_type = SituationCategory.immediate_danger
    /\ g_gen.kind = "timeout"
    /\ Len(g_reply) > 0

\* the classification call answered with a text that names no category
NoValidToken(answer) ==
    answer.kind = "text" /\ parse_assessment(str_upper(str_strip(answer.text))) = NoText

\* the classification call raised, or its response has no readable text
CallFailed(answer) == answer.kind \in {"blocked", "error", "timeout"}

\* C15: when the classification call names no category and when it fails, the same rule
\* over the top emotion decides: the category returned is the one either failure mode
\* gives for these emotions.
C15_FailureModesAgree ==
    (Classified /\ (NoValidToken(g_assess) \/ CallFailed(g_assess)))
        => /\ g_type = assess_after_call(g_emotions,
                          [kind |-> "text", text |-> <<"I"," ","a","m"," ","n","o","t"," ","s","u","r","e">>])
           /\ g_type = assess_after_call(g_emotions, [kind |-> "timeout", text |-> <<>>])

\* some word of `words` equals, letter case aside, a stretch of the text
MentionsAny(text, words) ==
    \E w \in words :
        \E i \in 1..(Len(text) - Len(w) + 1) : str_lower(SubSeq(text, i, i + Len(w) - 1)) = w

\* the label of the top emotion, letter case aside, and its score in hundredths
TopLabel(emotions) ==
    IF Len(emotions) > 0 /\ "label" \in DOMAIN emotions[1] THEN str_lower(emotions[1].label)
    ELSE <<>>

TopScore(emotions) ==
    IF Len(emotions) > 0 /\ "score" \in DOMAIN emotions[1] THEN emotions[1].score ELSE 0

NoModelCall == \A i \in 1..Len(g_calls) : g_calls[i] # "classify_call"

\* C16 as stated: without an explicit marker, a top emotion of the distress set above
\* 0.7 and a loss keyword of the module's list give grief without a model call.
C16_DistressSetShortcut ==
    (/\ Classified
     /\ ~MentionsMarker(g_text)
     /\ TopLabel(g_emotions) \in HIGH_DISTRESS
     /\ TopScore(g_emotions) > 70
     /\ MentionsAny(g_text, GRIEF_KEYWORDS))
        => (g_type = SituationCategory.grief /\ NoModelCall)

\* C16 amended: without an explicit marker, a top emotion labelled sadness (letter case
\* aside) above 0.7 and one of the words died, passed, funeral, death, lost, miss in
\* the message give grief without a model call, whatever the model would answer.
C16_SadnessLossShortcut ==
    (/\ Classified
     /\ ~MentionsMarker(g_text)
     /\ TopLabel(g_emotions) = <<"s","a","d","n","e","s","s">>
     /\ TopScore(g_emotions) > 70
     /\ MentionsAny(g_text, {grief_keywords[k] : k \in 1..Len(grief_keywords)}))
        => (g_type = SituationCategory.grief /\ NoModelCall)

\* C16 witness: an upper-case loss word under a capitalised sadness label
C16_Witness ==
    /\ g_pc = "done"
    /\ g_text = <<"M","y"," ","d","o","g"," ","D","I","E","D">>
    /\ g_emotions = <<[label |-> <<"S","a","d","n","e","s","s">>, score |-> 71]>>
    /\ g_type = SituationCategory.grief
    /\ NoModelCall

\* ------------------------------------------------------------ claims on the store

\* the stored consent flag of the identity of browser `b` (no row: no consent)
Consent(db, b) == db[Ident(b)] # <<>> /\ db[Ident(b)][1].data_consent

\* what is durably stored of the conversations of `b`: per session with any content,
\* its turns as they read back, its summary and its memory
DurableData(ss, b) ==
    {<<sid, [i \in DOMAIN ss[sid].messages |-> serialized(ss[sid].messages[i])],
       ss[sid].summary, ss[sid].memory>> :
        sid \in {x \in owned(b, ss) :
                    ss[x].messages # <<>> \/ ss[x].summary # <<>> \/ ss[x].memory # <<>>}}

\* how many Message rows of the sessions of `b` read back as `turn`
Copies(ss, b, turn) ==
    Cardinality({p \in UNION {{<<sid, i>> : i \in DOMAIN ss[sid].messages} : sid \in owned(b, ss)} :
                    serialized(ss[p[1]].messages[p[2]]) = turn})

\* C6: while the stored consent of an identity is false before and after a step, the
\* step writes no turn, summary or memory of that identity to the database.
C6_NoDurableWriteWithoutConsent ==
    [][\A b \in Browsers :
        (~Consent(prefs_db, b) /\ ~Consent(prefs_db', b))
            => DurableData(sessions', b) = DurableData(sessions, b)]_vars

\* C7: while consent is false the buffer of a browser session holds at most 10 turns
\* after every request.
C7_BufferAtMostTen ==
    \A b \in Browsers : ~Consent(prefs_db, b) => Len(buffer[b]) <= 10

\* C8: on every step that turns the stored consent from false to true, the buffer is
\* empty right after the step and each turn that was buffered is stored exactly once.
C8_TransitionMigratesOnce ==
    [][\A b \in Browsers :
        (~Consent(prefs_db, b) /\ Consent(prefs_db', b))
            => /\ buffer'[b] = <<>>
               /\ \A i \in DOMAIN buffer[b] : Copies(sessions', b, buffer[b][i]) = 1]_vars

\* C9: once consent is stored as granted, a step that processes the next message of the
\* browser leaves the buffer empty and a durable session that ends with the turns that
\* were buffered, in order, followed by the new user turn and the new bot turn.
C9_GrantedMessagesGoDurable ==
    [][\A b \in Browsers :
        (Consent(prefs_db, b) /\ Consent(prefs_db', b) /\ sent'[b] = sent[b] + 1)
            => /\ buffer'[b] = <<>>
               /\ \E sid \in owned(b, sessions') :
                    LET before == IF sid \in DOMAIN sessions THEN sessions[sid].messages ELSE <<>>
                        rows == sessions'[sid].messages
                    IN  [i \in DOMAIN rows |-> serialized(rows[i])] =
                            [i \in DOMAIN before |-> serialized(before[i])] \o buffer[b]
                            \o <<Turn("user", b, sent'[b]), Turn("bot", b, sent'[b])>>]_vars

\* C10: the migration is all-or-nothing: a step that stores a copy of any buffered turn
\* stores every buffered turn and leaves the buffer empty; a step that does not, stores
\* none.
C10_MigrationAllOrNothing ==
    [][\A b \in Browsers :
        (\E i \in DOMAIN buffer[b] :
            Copies(sessions', b, buffer[b][i]) > Copies(sessions, b, buffer[b][i]))
            => /\ buffer'[b] = <<>>
               /\ \A i \in DOMAIN buffer[b] :
                    Copies(sessions', b, buffer[b][i]) > Copies(sessions, b, buffer[b][i])]_vars

\* ------------------------------------------------------------ claims on consent

\* C27: an anonymous caller never has consent set to true: every attempt of an
\* anonymous caller to enable storage is rejected and leaves consent false.
C27_AnonymousNeverConsents ==
    \A b \in Browsers : ~is_authenticated(b) => ~Consent(prefs_db, b)

\* C28: after a consent change made through any operation, every later consent read of
\* the same identity observes the new value: the preferences a request finds in the
\* cache carry the consent flag that is stored.
C28_ConsentReadsAreFresh ==
    \A b \in Browsers :
        prefs_cache[Ident(b)] # <<>> =>
            prefs_cache[Ident(b)][1].data_consent = Consent(prefs_db, b)

\* ------------------------------------------------------------ claims on the sessions

\* a request is answered in this step
Answers == resp = NoResponseYet /\ resp' # NoResponseYet

\* the sessions of the table that belong to another identity than the caller's
Foreign(ss) == {sid \in DOMAIN ss : ss[sid].owner # Ident(client)}

\* C11: the user turn, the bot turn and the summary/memory update of one message are
\* committed together or not at all: a step that leaves the user turn of the message
\* being processed in a session leaves the bot turn right behind it in the last two rows
\* with memory and (when due) summary computed at that message; a step that does not,
\* leaves no bot turn of it and does not touch summary and memory.
C11_ExchangeAtomic ==
    [][\A sid \in DOMAIN sessions' :
        LET b == client
            k == sent[b] + 1
            before == IF sid \in DOMAIN sessions THEN sessions[sid] ELSE new_session(b)
            after == sessions'[sid]
            rows == after.messages
            at(role) == {i \in DOMAIN rows : serialized(rows[i]) = Turn(role, b, k)}
            due == user_msg_count(rows) <= 6 \/ user_msg_count(rows) % 3 = 0
        IN  IF at("user") # {}
            THEN /\ at("user") = {Len(rows) - 1}
                 /\ at("bot") = {Len(rows)}
                 /\ after.memory = <<b, k>>
                 /\ after.summary \in
                        IF due THEN {update_summary(before.summary, b, k, ok) :
                                        ok \in SummaryOutcomes}
                        ELSE {before.summary}
            ELSE /\ at("bot") = {}
                 /\ after.memory = before.memory
                 /\ after.summary = before.summary]_vars

\* api_chat has answered a message of a consenting caller from a session that ends with
\* the exchange, next to the session of another identity
C11_Witness ==
    /\ resp.op = "api_chat" /\ resp.reply
    /\ Consent(prefs_db, client)
    /\ Foreign(sessions) # {}
    /\ \E sid \in resp.sids :
        LET rows == sessions[sid].messages
        IN  /\ Len(rows) >= 2
            /\ serialized(rows[Len(rows) - 1]) = Turn("user", client, sent[client])
            /\ serialized(rows[Len(rows)]) = Turn("bot", client, sent[client])
            /\ sessions[sid].memory = <<client, sent[client]>>

\* C12: every session, turn, summary or memory that a request returns or modifies is of
\* a session of the caller: no answer carries a session of another identity, no step
\* changes, deletes or creates one, and none becomes the caller's current session.
C12_OwnSessionsOnly ==
    [][/\ \A sid \in resp'.sids : sid \notin Foreign(sessions) \cup Foreign(sessions')
       /\ \A sid \in Foreign(sessions) :
            sid \in DOMAIN sessions' /\ sessions'[sid] = sessions[sid]
       /\ Foreign(sessions') \subseteq Foreign(sessions)
       /\ (current'[client] # current[client] /\ current'[client] # <<>>)
            => current'[client][1] \notin Foreign(sessions')]_vars

\* the list of sessions was answered with the caller's own session while the table
\* holds a session of another identity
C12_Witness ==
    /\ resp.op = "api_chat_sessions"
    /\ Foreign(sessions) # {}
    /\ resp.sids # {}
    /\ \A sid \in resp.sids : sid \in DOMAIN sessions /\ sessions[sid].owner = Ident(client)

\* the browser session names as current a session of another identity
StaleCurrent == current[client] # <<>> /\ current[client][1] \in Foreign(sessions)

\* C13: when the stored current-session id names a session that is not the caller's, a
\* request that resolves the current session ends with an explicit error, and no request
\* drops the reference and substitutes or creates another session (the caller may still
\* pick one itself with api_switch_session or api_new_chat).
C13_StaleCurrentIsAnError ==
    [][(StaleCurrent /\ Answers) =>
        /\ resp'.op \in {"chat", "api_current_session"} => resp'.cause # ""
        /\ resp'.op \notin {"api_switch_session", "api_new_chat"} =>
            /\ current'[client] = current[client]
            /\ DOMAIN sessions' = DOMAIN sessions]_vars

\* C14: every non-empty message that passes the rate limit is answered with a reply,
\* whichever external capability fails (a failing database write is none of them).
C14_EveryMessageAnswered ==
    (resp.op = "api_chat" /\ resp.cause \notin {"rate_limit", "no_message", "database"})
        => resp.reply

\* ------------------------------------------------------------ claims on memory and summary

\* the fields update_memory fills with one value
MemoryFields == {"stressor", "motivation", "trajectory"}

\* the latest message of the user in the conversation
LatestUser == <<m_history[Len(m_history) - 1].text>>

\* C21: once stressor, motivation or trajectory holds a non-empty value, every later
\* pass of update_memory leaves the value of that field as it is.
C21_SetFieldsStay ==
    [][\A f \in MemoryFields : m_memory[f] # "" => m_memory'[f] = m_memory[f]]_vars

\* from no memory, an earlier pass has set the stressor to school stress, and the latest
\* message speaks of work
C21_Witness ==
    /\ Len(m_history) = 4
    /\ m_memory.stressor = "school stress"
    /\ m_memory.coping = {}
    /\ any_in(WORK_WORDS, LatestUser)

\* C22: after any number of update_memory calls, from any starting memory and for any
\* history, the coping list holds at most 8 entries.
C22_CopingAtMostEight ==
    Len(m_history) > 0 => Cardinality(m_memory.coping) <= 8

\* the memory that started with 9 coping entries holds 8 after a message that names
\* one more
C22_Witness ==
    /\ Len(m_history) > 0
    /\ "journaling" \in m_memory.coping \/ "yoga" \in m_memory.coping
    /\ "going for walks" \in m_memory.coping
    /\ Cardinality(m_memory.coping) = 8

\* C23: after every summary update, whatever text the generation capability returns,
\* the stored summary is at most 800 characters long.
C23_SummaryAtMost800 ==
    Len(m_history) > 0 => str_len(m_summary) <= 800

\* C24: a model-derived extraction overwrites stressor, motivation or trajectory even
\* when the field is set, and its coping entries are merged into the coping set (as far
\* as the cap leaves room).
C24_ModelEvidenceOverwrites ==
    Len(m_history) > 0 =>
        /\ \A f \in MemoryFields : m_extract[f] # "" => m_memory[f] = m_extract[f]
        /\ Cardinality(m_memory.coping) < coping_cap => m_extract.coping \subseteq m_memory.coping

SummaryCallFailed(result) == result.kind = "error" \/ (result.kind = "text" /\ result.text = <<>>)

HasSecret == _init_fernet(e_env) # <<>>

\* C26: writing a turn and reading it back returns exactly the original text, with a
\* valid secret, with none and with an invalid one; with a valid secret the stored text
\* is the original encrypted exactly once, however often it is saved, and without one
\* it is the original as it is.
C26_RoundTripEncryptedOnce ==
    /\ e_read # <<>> => e_read[1] = e_text
    /\ e_row # <<>> =>
        e_row[1] = IF HasSecret THEN fernet_encrypt(_init_fernet(e_env), e_text) ELSE e_text

\* with a valid secret, a text that is itself a token of that secret was saved twice
\* and read back
C26_Witness ==
    /\ HasSecret
    /\ e_text.layers # <<>> /\ fernet_decrypts(_init_fernet(e_env), e_text)
    /\ e_saves = 2
    /\ e_read = Some(e_text)

\* ------------------------------------------------------------ claims on concurrent requests

\* the request of a slot has passed the rate-limit check and is not answered yet
InFlight(r) == c_req[r].pc # "idle"

\* C25: the rate limit serializes the messages of one identity: no two api_chat requests
\* of it are ever both past the rate-limit check and still in flight.
C25_RateLimitSerializes ==
    Cardinality({r \in Slots : InFlight(r)}) <= 1

\* C29: after requests without consent have completed, overlapping or not, the buffer
\* (below its cap, and with no request having taken the durable branch) holds the user
\* turn and the bot turn of each of their messages.
C29_NoAcceptedTurnLost ==
    ((\A r \in Slots : ~InFlight(r)) /\ sessions = <<>> /\ Len(buffer[client]) < 10) =>
        \A k \in c_done : \A role \in {"user", "bot"} :
            \E i \in DOMAIN buffer[client] : buffer[client][i] = Turn(role, client, k)

\* C30: each buffered turn is copied into durable storage at most once, also when two
\* requests of the identity are served at the same time after consent is granted.
C30_BufferedTurnCopiedOnce ==
    \A k \in c_done : \A role \in {"user", "bot"} :
        Copies(sessions, client, Turn(role, client, k)) <= 1

\* ------------------------------------------------------------ claims on the current session

\* the requests that resolve the current session of the caller and answer with it
ResolvingOps == {"api_current_session", "api_chat_context", "api_chat", "chat"}

C32_ListFollowsDeleteAndSwitch ==
    resp.op = "api_chat_sessions" =>
        /\ resp.sids \subseteq DOMAIN sessions
        /\ current[client] # <<>> => resp.current_session_id = current[client]

\* ------------------------------------------------------------ claims on the rate limit

\* C33: an api_chat request that arrives less than 5 seconds after the request of the
\* identity that was last let through is answered with the rate-limit error and changes
\* nothing: buffer, durable turns, summary, memory, preferences, consent, caches and the
\* stored timestamp stay as they were, and the answer is neither a reply nor the failure
\* of an external call.
C33_RateLimitedChangesNothing ==
    [][(resp = NoResponseYet /\ resp'.op = "api_chat"
            /\ rate[client] # <<>> /\ rate[client][1] < 5) =>
        /\ resp'.status = 429 /\ resp'.cause = "rate_limit" /\ ~resp'.reply
        /\ UNCHANGED <<rate, prefs_db, prefs_cache, buffer, current, sessions, next_sid,
                       sent, list_cache>>]_vars

\* a message was refused 4 seconds after one that was stored
C33_Witness ==
    /\ resp.op = "api_chat" /\ resp.status = 429
    /\ rate[client] = Some(4)
    /\ sent[client] > 0

\* ------------------------------------------------------------ claims on the classification answer

\* the places of the answer text, upper-cased, at which a category token stands
TokenAt(text, i, token) ==
    /\ i + Len(token) - 1 <= Len(text)
    /\ SubSeq(text, i, i + Len(token) - 1) = token

TokenPlaces(text) ==
    {i \in 1..Len(text) : \E k \in 1..Len(valid_types) : TokenAt(text, i, valid_types[k])}

\* C34: when the classification answer contains category tokens, the category returned
\* is the one whose token occurs first in the answer text.
C34_FirstTokenInTextWins ==
    (Classified /\ g_assess.kind = "text") =>
        LET text == str_upper(str_strip(g_assess.text))
        IN  \A i \in TokenPlaces(text) :
                (\A j \in TokenPlaces(text) : i <= j) =>
                    \E k \in 1..Len(valid_types) :
                        /\ TokenAt(text, i, valid_types[k])
                        /\ g_type = str_lower(valid_types[k])

\* ------------------------------------------------------------ claims on the sarcasm scorer

\* /predict_all has answered with a verdict
Answered == a_resp.status = 200

\* C17: for every input and every configured weights, blend weight and calibration
\* coefficients, the sarcasm score of the verdict lies in [0,1]
C17_ScoreInUnitInterval ==
    Answered => a_resp.sarcasm_score >= 0 /\ a_resp.sarcasm_score <= 1000

\* C18: for every configured pair of thresholds the label is sarcastic exactly when the
\* score is at least the strict threshold, possibly_sarcastic exactly when it is at
\* least the possible threshold and below the strict one, and not_sarcastic otherwise
C18_LabelByThresholds ==
    Answered =>
        LET score == a_resp.sarcasm_score
            strict == STRICT_SARCASM_THRESHOLD(a_env)
            possible == POSSIBLE_SARCASM_THRESHOLD(a_env)
        IN  /\ a_resp.sarcasm = "sarcastic" <=> score >= strict
            /\ a_resp.sarcasm = "possibly_sarcastic" <=> (possible <= score /\ score < strict)
            /\ a_resp.sarcasm = "not_sarcastic" <=> (score < strict /\ score < possible)

\* a score exactly on an overridden strict threshold, labelled sarcastic
C18_Witness ==
    /\ Answered
    /\ "SARCASM_STRICT_THRESHOLD" \in DOMAIN a_env
    /\ a_resp.sarcasm_score = STRICT_SARCASM_THRESHOLD(a_env)
    /\ a_resp.sarcasm = "sarcastic"

\* the text has one of the phrases, in any case
HasPhrase(text, phrases) ==
    \E k \in 1..Len(phrases) : Contains(str_lower(text), phrases[k])

\* no model signal and no rule fired for the request
NothingFired ==
    /\ Get(IRONY_LABEL_MAP, top_of(a_req.irony_raw).label, "not_sarcastic") # "sarcastic"
    /\ ~Contains(str_lower(a_req.decoded), sarcas)
    /\ ~HasPhrase(a_req.text, NEG_EVENTS)
    /\ ~HasPhrase(a_req.text, POS_EXAGG)
    /\ ~ELONGATED(a_req.text)
    /\ \A w \in PROFANITY : ~Contains(str_lower(a_req.text), w)

\* C19: in every configuration the sources of a verdict are never empty, and when no
\* rule or model signal fired they are exactly one entry, the none sentinel
C19_SourcesNeverEmptyNoneSentinel ==
    Answered =>
        /\ a_resp.sarcasm_sources # <<>>
        /\ NothingFired => a_resp.sarcasm_sources = <<Source("none_triggered", 0)>>

\* the environment leaves the weights and thresholds at their defaults (unset, or a
\* weight set to a text that is no number) and configures no calibration coefficients
DefaultScoring ==
    \A k \in DOMAIN a_env :
        \/ k = "SARCASM_DEBUG"
        \/ k = "SARCASM_LOGISTIC_COEFFS" /\ ~coeffs_truthy(LOGISTIC_COEFFS(a_env))
        \/ /\ k \notin {"SARCASM_LOGISTIC_COEFFS", "SARCASM_STRICT_THRESHOLD",
                         "SARCASM_POSSIBLE_THRESHOLD"}
           /\ ~a_env[k].ok

\* C20: with the default weights and thresholds and no blending, a text with a
\* positive-hyperbole phrase and a negative-event phrase is labelled sarcastic,
\* whatever the irony and intent models and the emotion scores are
C20_HyperboleWithNegativeEventIsSarcastic ==
    (/\ Answered
     /\ DefaultScoring
     /\ HasPhrase(a_req.text, POS_EXAGG)
     /\ HasPhrase(a_req.text, NEG_EVENTS))
        => a_resp.sarcasm = "sarcastic"

\* hyperbole and a negative event in upper case, both models saying "not sarcastic",
\* no emotion scored
C20_Witness ==
    /\ Answered
    /\ DefaultScoring
    /\ a_req.text = <<"P","e","r","f","e","c","t","."," ","A","n","o","t","h","e","r"," ","E","R","R","O","R">>
    /\ a_req.irony_raw = <<[label |-> "LABEL_0", score |-> 950]>>
    /\ a_req.decoded = <<"n","o","r","m","a","l">>
    /\ a_req.emotions = <<>>
    /\ a_resp.sarcasm = "sarcastic"

\* the sources of the verdict by name
Fired(tag) == \E k \in 1..Len(a_resp.sarcasm_sources) : a_resp.sarcasm_sources[k].tag = tag

\* the score of the request had the service been started with these weights instead
OtherWeights == {0, 900}

score_with(overrides) ==
    aggregate_sarcasm(overrides @@ a_env, BaseFeatures[a_req.text], a_req.emotions,
                      a_req.irony_raw, a_req.decoded).sarcasm_score

C36_ContradictionExcludesCombo ==
    Answered =>
        /\ ~(Fired("heuristic_contrast") /\ Fired("heuristic_pos_neg_combo"))
        /\ Fired("heuristic_contrast") =>
            \A w \in OtherWeights :
                score_with(("SARCASM_WEIGHT_POS_NEG_COMBO" :> Number(w))
                           @@ ("SARCASM_WEIGHT_POS_BOOST" :> Number(w))) = a_resp.sarcasm_score
        /\ Fired("heuristic_pos_neg_combo") =>
            \A w \in OtherWeights :
                score_with(("SARCASM_WEIGHT_CONTRADICTION" :> Number(w))
                           @@ ("SARCASM_WEIGHT_POS_BOOST" :> Number(w))) = a_resp.sarcasm_score

\* a verdict on a hyperbole with a negative event in which the contradiction trigger
\* fired, with a score below the cap, so that a further weight would show
C36_Witness ==
    /\ Answered
    /\ Fired("heuristic_contrast") /\ Fired("pos_hyperbole")
    /\ a_resp.sarcasm_score < 1000
    /\ DefaultScoring

\* ------------------------------------------------------------ claims on the summary cadence

\* a message of the followed conversation was stored by the step
TurnStored == t_session'.messages # t_session.messages

\* C38: with consent, the summary call is issued after a message exactly when the
\* session's user turns, the new one counted, are at most 6 or a multiple of 3; after
\* any other message the stored summary is as before; the memory is that of the new
\* message after every message
C38_SummaryCadence ==
    [][(TurnStored /\ t_consent') =>
        LET n == user_msg_count(t_session'.messages)
        IN  /\ n = user_msg_count(t_session.messages) + 1
            /\ (\E i \in DOMAIN t_calls' : t_calls'[i] = "summary") <=> (n <= 6 \/ n % 3 = 0)
            /\ ~(n <= 6 \/ n % 3 = 0) => t_session'.summary = t_session.summary
            /\ t_session'.memory = <<client, n>>]_vars

\* the eighth user turn: the summary is still the sixth's, the memory is the eighth's
C38_Witness ==
    /\ t_consent
    /\ user_msg_count(t_session.messages) = 8
    /\ t_session.summary = <<client, 6>>
    /\ t_session.memory = <<client, 8>>
    /\ \A i \in DOMAIN t_calls : t_calls[i] # "summary"

\* ------------------------------------------------------------ claims on the external calls

GenerationKinds == {"classification", "reply_generation", "summary"}

CallsOf(kinds) == {i \in DOMAIN t_calls : t_calls[i] \in kinds}

CallOrder(call) ==
    CASE call = "emotion_scoring" -> 1
      [] call = "classification" -> 2
      [] call = "reply_generation" -> 3
      [] call = "summary" -> 4

====
